---- MODULE Spec2Model ----
(***************************************************************************)
(* A model of the UKBAnalyzer attribution and scoring engine:              *)
(*   - UKBShowcaseScraper._process_categories   (showcase_scraper.py)      *)
(*   - IntegratedAnalyzer                        (integrated_analyzer.py)  *)
(*   - DiseaseContributionsAnalyzer              (disease_contributions_   *)
(*                                                analyzer.py)             *)
(* Python strings are sequences of one-character strings, so that the      *)
(* substring tests, the regular expressions and the numeric parsing of the *)
(* code are computed character by character.  Python dicts keep insertion  *)
(* order and are sequences of keyed records.                               *)
(***************************************************************************)
EXTENDS Integers, Sequences, FiniteSets, TLC

VARIABLES
    \* UKBShowcaseScraper._process_categories
    categories_df,   \* the categories table, a sequence of rows
    fields_df,       \* the fields table, a sequence of rows
    categories,      \* the local defaultdict `categories`
    tpc,             \* position: "cats", "fields", "done", "raised", "idle"
    ti,              \* index of the next row of the table being iterated
    \* the corpus both analyzers read
    publications,
    \* DiseaseContributionsAnalyzer.analyze_disease_contributions
    contributions,   \* the local defaultdict `contributions`
    dpc,             \* position: "call", "loop", "done", "raised", "idle"
    di,              \* index of the next publication
    dresults,        \* the dicts the calls returned, in call order
    \* IntegratedAnalyzer
    showcase_data,   \* self.showcase_data
    nlp,             \* whether self.nlp is a loaded model (TRUE) or None
    field_mappings,  \* self.field_mappings
    field_usage,     \* the local `field_usage`, then self.field_usage
    found,           \* found_fields not yet counted
    upc,             \* position: "new", "scan", "mentions", "ready", "raised", "idle"
    ui,              \* index of the publication being scanned
    uresults,        \* what _analyze_field_usage returned, per construction
    category_coverage, \* what analyze_category_coverage returned last
    coverage_data,   \* the rows of the coverage table of create_visualizations
    \* the citation coercion of analyze_disease_contributions, on its own
    raw_citations,   \* pub.get('total_citations', 0) before the coercion
    coerced,         \* what the try statement ended with
    cpc,             \* position: "start", "done", "raised", "idle"
    \* UKBShowcaseScraper.fetch_categories, called again and again
    fetched,         \* what _fetch_schema returned for 'fields' and 'categories'
    self_categories, \* self.categories
    fetch_prev,      \* self.categories when the last call began
    fetch_ret,       \* what the last call returned
    fpc,             \* position: "new", "fetched", "returned", "idle"
    fetch_calls,     \* the calls made so far
    \* the three scanners of publication text, run on one paper
    paper,           \* the paper dict
    scan_fields,     \* field-mention scanning: its outcome
    scan_diseases,   \* disease-category matching: its outcome
    scan_relations,  \* feature/disease relationship extraction: its outcome
    \* UKBiobankAnalysisPipeline.run_pipeline
    rpc,             \* position of run_pipeline
    stage_log,       \* the stages entered so far, in order
    pipe_error,      \* what run_pipeline raised: "none" while it has not
    \* UKBPublicationsParser: fetch_publications and the save methods
    response,        \* what session.get gave the last call
    self_publications, \* self.publications
    pub_ret,         \* what the last fetch_publications returned
    pub_pc,          \* position: "ready", "returned", "raised", "idle"
    pub_calls,       \* the calls of fetch_publications made so far
    saved_json,      \* what save_to_json wrote last, "nothing" before
    \* UKBiobankPaperParser.search_papers
    use_cache,       \* self.use_cache
    cache_file,      \* the cache file: whether it exists, and the list in it
    max_results,     \* the argument of the call
    papers,          \* the local list of fetched papers
    term_idx,        \* index of the search term of the outer loop
    tries,           \* iterations of the inner loop done for the term
    query,           \* what the search iterator of the term will still do
    spc,             \* position of search_papers
    searched,        \* calls of the search API made by the call
    search_ret,      \* what the last call returned
    search_calls     \* the calls of search_papers made so far

taxVars == <<categories_df, fields_df, categories, tpc, ti>>
contribVars == <<contributions, dpc, di, dresults>>
usageVars == <<showcase_data, nlp, field_mappings, field_usage, found, upc, ui,
               uresults, category_coverage, coverage_data>>
coerceVars == <<raw_citations, coerced, cpc>>
fetchVars == <<fetched, self_categories, fetch_prev, fetch_ret, fpc, fetch_calls>>
scanVars == <<paper, scan_fields, scan_diseases, scan_relations>>
pipeVars == <<rpc, stage_log, pipe_error>>
parserVars == <<response, self_publications, pub_ret, pub_pc, pub_calls, saved_json>>
cacheVars == <<use_cache, cache_file, max_results, papers, term_idx, tries, query, spc,
               searched, search_ret, search_calls>>
ioVars == <<pipeVars, parserVars, cacheVars>>
vars == <<taxVars, publications, contribVars, usageVars, coerceVars, fetchVars, scanVars,
          ioVars>>

(***************************************************************************)
(* Bounds of the model.                                                    *)
(***************************************************************************)
MaxCatRows == 3
MaxFieldRows == 2
MaxPubs == 3

(***************************************************************************)
(* Strings.                                                                *)
(***************************************************************************)
EmptyStr == << >>

\* whether string a stands in string b at offset i
MatchesAt(a, b, i) == \A j \in 1..Len(a) : b[i + j] = a[j]

\* Python `a in b` for two strings
IsSubstr(a, b) == \E i \in 0..(Len(b) - Len(a)) : MatchesAt(a, b, i)

\* sequences over S of length 0..n
SeqUpTo(S, n) == UNION { [1..k -> S] : k \in 0..n }

\* a Python value read from a table cell or a dict: a string, a
\* non-string (a float NaN of an empty pandas cell), or an absent key
Str(s) == [t |-> "str", s |-> s]
NonStr == [t |-> "float", s |-> <<"n", "a", "n">>]
Absent == [t |-> "absent", s |-> EmptyStr]

\* row.get(k1, row.get(k2, '')): the first column if the table has it
Get2(v1, v2) ==
    IF v1 # Absent THEN v1 ELSE IF v2 # Absent THEN v2 ELSE Str(EmptyStr)

\* str(v) of a cell: a string stays, a float NaN prints as 'nan'
PyStr(v) == v.s

(***************************************************************************)
(* UKBShowcaseScraper._process_categories                                  *)
(***************************************************************************)
\* index of the entry with key `id` in an ordered dict, 0 when absent
IndexOf(d, id) ==
    IF \E i \in 1..Len(d) : d[i].id = id
    THEN CHOOSE i \in 1..Len(d) : d[i].id = id
    ELSE 0

\* defaultdict access categories[id]: the entry is created on first access
Vivify(cats, id) ==
    IF IndexOf(cats, id) # 0 THEN cats
    ELSE Append(cats, [id |-> id, name |-> Str(EmptyStr), subcategories |-> << >>])

\* defaultdict access main_cat['subcategories'][id]
VivifySub(subs, id) ==
    IF IndexOf(subs, id) # 0 THEN subs
    ELSE Append(subs, [id |-> id, name |-> Str(EmptyStr), fields |-> << >>])

\* categories[parent_id]['subcategories'][cat_id]['name'] = cat_name
SetSubcatName(cats, parent_id, cat_id, cat_name) ==
    LET c1 == Vivify(cats, parent_id)
        ci == IndexOf(c1, parent_id)
        s1 == VivifySub(c1[ci].subcategories, cat_id)
        si == IndexOf(s1, cat_id)
    IN  [c1 EXCEPT ![ci].subcategories = [s1 EXCEPT ![si].name = cat_name]]

\* categories[cat_id]['name'] = cat_name
SetCatName(cats, cat_id, cat_name) ==
    LET c1 == Vivify(cats, cat_id)
        ci == IndexOf(c1, cat_id)
    IN  [c1 EXCEPT ![ci].name = cat_name]

\* a sentinel no str() of a missing cell gives
NanStrUpper == <<"N", "A", "N">>

\* str(float('nan')), what str() gives for the missing cell of a table
NanStr == <<"n", "a", "n">>

\* the body of the loop over categories_df.iterrows()
ProcessCategoryRow(cats, row) ==
    LET cat_id    == PyStr(row.cat_id)
        cat_name  == Get2(row.title, row.cat_name)
        parent_id == PyStr(row.parent_id)
    IN  IF cat_id = EmptyStr THEN cats
        ELSE IF parent_id # EmptyStr /\ parent_id # NanStr
             THEN SetSubcatName(cats, parent_id, cat_id, cat_name)
             ELSE SetCatName(cats, cat_id, cat_name)

\* the subcategories in the order the two nested loops visit them
SubcatOrder(cats) ==
    LET RECURSIVE walk(_, _)
        walk(ci, si) ==
            IF ci > Len(cats) THEN << >>
            ELSE IF si > Len(cats[ci].subcategories) THEN walk(ci + 1, 1)
            ELSE << <<ci, si>> >> \o walk(ci, si + 1)
    IN  walk(1, 1)

\* cat_id in subcat['name'] or cat_id == subcat['name'];
\* `in` raises TypeError on a name that is no string
NameRaises(name) == name.t # "str"
NameMatches(cat_id, name) == IsSubstr(cat_id, name.s) \/ cat_id = name.s

\* the subcategories whose name matches, in the order of the loops
AllMatches(cats, cat_id) ==
    LET order == SubcatOrder(cats)
    IN  SelectSeq(order, LAMBDA p : NameMatches(cat_id, cats[p[1]].subcategories[p[2]].name))

\* the loops without their two `break`s: the field is appended to every
\* subcategory that matches
MatchTargetsNoBreak(cats, cat_id) == AllMatches(cats, cat_id)

\* the loops keeping the last match they meet, for the first
MatchTargetsLast(cats, cat_id) ==
    LET all == AllMatches(cats, cat_id)
    IN  IF all = << >> THEN << >> ELSE << all[Len(all)] >>

\* the subcategories the field is appended to: the first match only,
\* the loops break on it
MatchTargets(cats, cat_id) ==
    LET all == AllMatches(cats, cat_id)
    IN  IF all = << >> THEN << >> ELSE << all[1] >>

\* whether the scan reads a non-string name before it finds a match
ScanRaises(cats, cat_id) ==
    LET order == SubcatOrder(cats)
        Name(k) == cats[order[k][1]].subcategories[order[k][2]].name
    IN  \E k \in 1..Len(order) :
            /\ NameRaises(Name(k))
            /\ \A j \in 1..(k - 1) : ~NameMatches(cat_id, Name(j))

UncategorizedId == <<"u", "n", "c", "a", "t", "e", "g", "o", "r", "i", "z", "e", "d">>
DefaultId == <<"d", "e", "f", "a", "u", "l", "t">>

AppendField(cats, ci, si, field_info) ==
    [cats EXCEPT ![ci].subcategories[si].fields = Append(@, field_info)]

\* categories['uncategorized']['subcategories']['default']['fields'].append(field_info)
AppendDefault(cats, field_info) ==
    LET c1 == Vivify(cats, UncategorizedId)
        ci == IndexOf(c1, UncategorizedId)
        s1 == VivifySub(c1[ci].subcategories, DefaultId)
        si == IndexOf(s1, DefaultId)
        c2 == [c1 EXCEPT ![ci].subcategories = s1]
    IN  AppendField(c2, ci, si, field_info)

RECURSIVE AppendAll(_, _, _)
AppendAll(cats, targets, field_info) ==
    IF targets = << >> THEN cats
    ELSE AppendAll(AppendField(cats, targets[1][1], targets[1][2], field_info),
                   Tail(targets), field_info)

FieldInfo(field) ==
    [field_id    |-> PyStr(field.field_id),
     name        |-> Get2(field.title, field.field_name),
     type        |-> field.type,
     description |-> field.description]

FieldCatRef(field) == PyStr(Get2(field.category, field.cat_id))

\* the body of the loop over fields_df.iterrows(), when it does not raise
ProcessFieldRow(cats, field) ==
    LET field_id == PyStr(field.field_id)
        cat_id   == FieldCatRef(field)
        targets  == MatchTargets(cats, cat_id)
    IN  IF field_id = EmptyStr THEN cats
        ELSE IF targets # << >> THEN AppendAll(cats, targets, FieldInfo(field))
        ELSE AppendDefault(cats, FieldInfo(field))

FieldRowRaises(cats, field) ==
    /\ PyStr(field.field_id) # EmptyStr
    /\ ScanRaises(cats, FieldCatRef(field))

(***************************************************************************)
(* The tables the model draws its inputs from.                             *)
(***************************************************************************)
CatRow(id, title, parent) ==
    [cat_id |-> Str(id), title |-> title, cat_name |-> Absent, parent_id |-> parent]

CatRowPool ==
    { CatRow(<<"1">>, Str(<<"a">>), Str(EmptyStr)),
      CatRow(<<"2">>, Str(<<"a", "b">>), Str(<<"1">>)),
      CatRow(<<"3">>, Str(<<"b">>), Str(<<"1">>)),
      CatRow(<<"4">>, Str(<<"a">>), Str(<<"2">>)),
      CatRow(<<"5">>, NonStr, Str(<<"2">>)),
      CatRow(<<"6">>, Str(<<"b">>), NonStr),
      CatRow(EmptyStr, Str(<<"a">>), Str(<<"1">>)),
      CatRow(<<"7">>, Str(<<"a">>), Absent),
      [cat_id |-> Str(<<"3">>), title |-> Absent, cat_name |-> Str(<<"b", "a">>),
       parent_id |-> Str(<<"2">>)] }

FieldRow(id, cat) ==
    [field_id |-> Str(id), title |-> Str(<<"t">>), field_name |-> Absent,
     category |-> cat, cat_id |-> Absent,
     type |-> Str(<<"i">>), description |-> Str(EmptyStr)]

FieldRowPool ==
    { FieldRow(<<"1", "-", "0", ".", "0">>, Str(<<"a">>)),
      FieldRow(<<"2", "-", "0", ".", "0">>, Str(<<"b">>)),
      FieldRow(<<"3", "-", "0", ".", "0">>, Str(<<"c">>)),
      FieldRow(<<"1", "-", "0", ".", "0">>, Str(<<"b">>)),
      FieldRow(EmptyStr, Str(<<"a">>)),
      [field_id |-> Str(<<"4", "-", "0", ".", "0">>), title |-> Absent,
       field_name |-> Str(<<"n">>), category |-> Absent, cat_id |-> Absent,
       type |-> Str(<<"i">>), description |-> Str(EmptyStr)] }

(***************************************************************************)
(* Text helpers of the analyzers.                                          *)
(***************************************************************************)
LowerChar(c) ==
    CASE c = "A" -> "a"
      [] c = "B" -> "b"
      [] c = "C" -> "c"
      [] c = "D" -> "d"
      [] c = "E" -> "e"
      [] c = "F" -> "f"
      [] c = "G" -> "g"
      [] c = "H" -> "h"
      [] c = "I" -> "i"
      [] c = "J" -> "j"
      [] c = "K" -> "k"
      [] c = "L" -> "l"
      [] c = "M" -> "m"
      [] c = "N" -> "n"
      [] c = "O" -> "o"
      [] c = "P" -> "p"
      [] c = "Q" -> "q"
      [] c = "R" -> "r"
      [] c = "S" -> "s"
      [] c = "T" -> "t"
      [] c = "U" -> "u"
      [] c = "V" -> "v"
      [] c = "W" -> "w"
      [] c = "X" -> "x"
      [] c = "Y" -> "y"
      [] c = "Z" -> "z"
      [] OTHER -> c

\* str.lower()
Lower(s) == [i \in 1..Len(s) |-> LowerChar(s[i])]

RECURSIVE LStrip(_)
LStrip(s) == IF s # << >> /\ Head(s) = " " THEN LStrip(Tail(s)) ELSE s

RECURSIVE RStrip(_)
RStrip(s) ==
    IF s # << >> /\ s[Len(s)] = " " THEN RStrip(SubSeq(s, 1, Len(s) - 1)) ELSE s

\* str.strip(), the whitespace of the model being the space
Strip(s) == RStrip(LStrip(s))

Digit == {"0", "1", "2", "3", "4", "5", "6", "7", "8", "9"}

DigitVal(c) ==
    CASE c = "0" -> 0 [] c = "1" -> 1 [] c = "2" -> 2 [] c = "3" -> 3
      [] c = "4" -> 4 [] c = "5" -> 5 [] c = "6" -> 6 [] c = "7" -> 7
      [] c = "8" -> 8 [] c = "9" -> 9

RECURSIVE DigitsVal(_)
DigitsVal(ds) ==
    IF ds = << >> THEN 0
    ELSE DigitsVal(SubSeq(ds, 1, Len(ds) - 1)) * 10 + DigitVal(ds[Len(ds)])

AllDigits(s) == \A i \in 1..Len(s) : s[i] \in Digit

RECURSIVE Pow10(_)
Pow10(n) == IF n = 0 THEN 1 ELSE 10 * Pow10(n - 1)

\* more Python values: None, and numbers, each held by its repr
NoneVal == [t |-> "none", s |-> <<"N", "o", "n", "e">>]
IntVal(repr) == [t |-> "int", s |-> repr]
FloatVal(repr) == [t |-> "float", s |-> repr]

\* dict.get(key): an absent key reads as None
GetOrNone(v) == IF v = Absent THEN NoneVal ELSE v

\* dict.get(key, ''): an absent key reads as the empty string
GetOrEmpty(v) == IF v = Absent THEN Str(EmptyStr) ELSE v

\* the text of a publication: its characters, and `pad` further spaces at
\* its end that the model does not write out
\* text = f"{pub.get('title', '')} {pub.get('abstract', '')}"
PubText(pub) ==
    [s   |-> PyStr(GetOrEmpty(pub.title)) \o <<" ">> \o PyStr(GetOrEmpty(pub.abstract)),
     pad |-> pub.abstract_pad]

TextLen(text) == Len(text.s) + text.pad

(***************************************************************************)
(* Floating point values: a finite value in units of 10^-7, NaN, or an     *)
(* infinity.                                                               *)
(***************************************************************************)
Fin(v) == [k |-> "fin", v |-> v]
NaN == [k |-> "nan", v |-> 0]
NegInf == [k |-> "-inf", v |-> 0]
PosInf == [k |-> "inf", v |-> 0]
ScoreUnit == 10000000

FAdd(a, b) ==
    IF a.k = "nan" \/ b.k = "nan" THEN NaN
    ELSE IF a.k = "-inf" \/ b.k = "-inf" THEN NegInf
    ELSE Fin(a.v + b.v)

\* a < b of two floats: every comparison with NaN is false
FLt(a, b) ==
    IF a.k = "nan" \/ b.k = "nan" THEN FALSE
    ELSE IF b.k = "-inf" THEN FALSE
    ELSE IF a.k = "-inf" THEN TRUE
    ELSE a.v < b.v

\* a >= b of two floats
FGe(a, b) ==
    IF a.k = "nan" \/ b.k = "nan" THEN FALSE
    ELSE IF b.k = "-inf" THEN TRUE
    ELSE IF a.k = "-inf" THEN FALSE
    ELSE a.v >= b.v

(***************************************************************************)
(* Citation coercion: int(float(pub.get('total_citations', 0)))            *)
(***************************************************************************)
\* the largest decimal exponent of a finite double
MaxDecimalExponent == 308

\* the digits of a decimal mantissa "ddd", "ddd.ddd", "ddd." or ".ddd"
MantissaOk(m) ==
    /\ \A i \in 1..Len(m) : m[i] \in Digit \cup {"."}
    /\ Cardinality({i \in 1..Len(m) : m[i] = "."}) <= 1
    /\ \E i \in 1..Len(m) : m[i] \in Digit

MantissaDigits(m) == SelectSeq(m, LAMBDA c : c \in Digit)

MantissaScale(m) ==
    IF \E i \in 1..Len(m) : m[i] = "."
    THEN Len(m) - (CHOOSE i \in 1..Len(m) : m[i] = ".")
    ELSE 0

ExponentOk(e) ==
    LET d == IF e # << >> /\ Head(e) \in {"+", "-"} THEN Tail(e) ELSE e
    IN  d # << >> /\ AllDigits(d)

ExponentVal(e) ==
    IF Head(e) = "-" THEN 0 - DigitsVal(Tail(e))
    ELSE IF Head(e) = "+" THEN DigitsVal(Tail(e))
    ELSE DigitsVal(e)

\* float(s) of a string, then int() of a finite result: the integer the
\* value truncates to, or what the two conversions raise
ParseFloatToInt(s) ==
    LET u    == Strip(s)
        neg  == u # << >> /\ Head(u) = "-"
        body == IF u # << >> /\ Head(u) \in {"+", "-"} THEN Tail(u) ELSE u
        lb   == Lower(body)
        epos == IF \E i \in 1..Len(lb) : lb[i] = "e"
                THEN CHOOSE i \in 1..Len(lb) : lb[i] = "e" /\ \A j \in 1..(i - 1) : lb[j] # "e"
                ELSE 0
        mant == IF epos = 0 THEN lb ELSE SubSeq(lb, 1, epos - 1)
        expo == IF epos = 0 THEN <<"0">> ELSE SubSeq(lb, epos + 1, Len(lb))
    IN  IF lb \in {<<"i", "n", "f">>, <<"i", "n", "f", "i", "n", "i", "t", "y">>}
        THEN [out |-> "OverflowError", v |-> 0]   \* int(inf)
        ELSE IF lb = <<"n", "a", "n">>
        THEN [out |-> "ValueError", v |-> 0]      \* int(nan)
        ELSE IF ~(MantissaOk(mant) /\ ExponentOk(expo))
        THEN [out |-> "ValueError", v |-> 0]      \* float() of a non-number
        ELSE
            LET digits == MantissaDigits(mant)
                shift  == ExponentVal(expo) - MantissaScale(mant)
                zero   == \A i \in 1..Len(digits) : digits[i] = "0"
                mag    == IF shift >= 0 THEN DigitsVal(digits) * Pow10(shift)
                          ELSE IF 0 - shift > Len(digits) THEN 0
                          ELSE DigitsVal(digits) \div Pow10(0 - shift)
            IN  IF ~zero /\ Len(digits) + shift > MaxDecimalExponent + 1
                THEN [out |-> "OverflowError", v |-> 0]   \* the float is inf
                ELSE [out |-> "ok", v |-> IF neg THEN 0 - mag ELSE mag]

\* try: citations = int(float(pub.get('total_citations', 0)))
\* except (TypeError, ValueError): citations = 0
\* The OverflowError of int(inf) is none of the two and leaves the function.
CoerceCitationsCaught(raw) ==
    IF raw = Absent THEN [out |-> "ok", v |-> 0]
    ELSE IF raw.t = "none" THEN [out |-> "ok", v |-> 0]
    ELSE LET r == ParseFloatToInt(raw.s)
         IN  IF r.out = "ValueError" THEN [out |-> "ok", v |-> 0] ELSE r

CoerceCitations(raw) == CoerceCitationsCaught(raw)

(***************************************************************************)
(* DiseaseContributionsAnalyzer                                            *)
(***************************************************************************)
\* self.disease_categories
disease_categories ==
    <<
      [category |-> "cardiovascular", keywords |-> <<
          <<"c", "a", "r", "d", "i", "o", "v", "a", "s", "c", "u", "l", "a", "r", " ", "d", "i", "s", "e", "a", "s", "e">>,
          <<"h", "e", "a", "r", "t", " ", "d", "i", "s", "e", "a", "s", "e">>,
          <<"s", "t", "r", "o", "k", "e">>,
          <<"h", "y", "p", "e", "r", "t", "e", "n", "s", "i", "o", "n">>,
          <<"a", "t", "h", "e", "r", "o", "s", "c", "l", "e", "r", "o", "s", "i", "s">>,
          <<"a", "r", "r", "h", "y", "t", "h", "m", "i", "a">>,
          <<"c", "o", "r", "o", "n", "a", "r", "y", " ", "a", "r", "t", "e", "r", "y", " ", "d", "i", "s", "e", "a", "s", "e">>,
          <<"h", "e", "a", "r", "t", " ", "f", "a", "i", "l", "u", "r", "e">>
      >>],
      [category |-> "cancer", keywords |-> <<
          <<"c", "a", "n", "c", "e", "r">>,
          <<"t", "u", "m", "o", "u", "r">>,
          <<"c", "a", "r", "c", "i", "n", "o", "m", "a">>,
          <<"n", "e", "o", "p", "l", "a", "s", "m">>,
          <<"l", "y", "m", "p", "h", "o", "m", "a">>,
          <<"l", "e", "u", "k", "e", "m", "i", "a">>,
          <<"m", "e", "l", "a", "n", "o", "m", "a">>,
          <<"o", "n", "c", "o", "l", "o", "g", "y">>,
          <<"m", "e", "t", "a", "s", "t", "a", "s", "i", "s">>
      >>],
      [category |-> "neurodegenerative", keywords |-> <<
          <<"a", "l", "z", "h", "e", "i", "m", "e", "r">>,
          <<"p", "a", "r", "k", "i", "n", "s", "o", "n">>,
          <<"d", "e", "m", "e", "n", "t", "i", "a">>,
          <<"n", "e", "u", "r", "o", "d", "e", "g", "e", "n", "e", "r", "a", "t", "i", "o", "n">>,
          <<"c", "o", "g", "n", "i", "t", "i", "v", "e", " ", "d", "e", "c", "l", "i", "n", "e">>,
          <<"b", "r", "a", "i", "n", " ", "a", "g", "i", "n", "g">>,
          <<"n", "e", "u", "r", "o", "l", "o", "g", "i", "c", "a", "l">>
      >>],
      [category |-> "metabolic", keywords |-> <<
          <<"d", "i", "a", "b", "e", "t", "e", "s">>,
          <<"o", "b", "e", "s", "i", "t", "y">>,
          <<"m", "e", "t", "a", "b", "o", "l", "i", "c", " ", "s", "y", "n", "d", "r", "o", "m", "e">>,
          <<"t", "h", "y", "r", "o", "i", "d", " ", "d", "i", "s", "e", "a", "s", "e">>,
          <<"i", "n", "s", "u", "l", "i", "n", " ", "r", "e", "s", "i", "s", "t", "a", "n", "c", "e">>
      >>],
      [category |-> "psychiatric", keywords |-> <<
          <<"d", "e", "p", "r", "e", "s", "s", "i", "o", "n">>,
          <<"a", "n", "x", "i", "e", "t", "y">>,
          <<"m", "e", "n", "t", "a", "l", " ", "h", "e", "a", "l", "t", "h">>,
          <<"s", "c", "h", "i", "z", "o", "p", "h", "r", "e", "n", "i", "a">>,
          <<"b", "i", "p", "o", "l", "a", "r", " ", "d", "i", "s", "o", "r", "d", "e", "r">>,
          <<"p", "s", "y", "c", "h", "i", "a", "t", "r", "i", "c", " ", "i", "l", "l", "n", "e", "s", "s">>
      >>],
      [category |-> "respiratory", keywords |-> <<
          <<"a", "s", "t", "h", "m", "a">>,
          <<"c", "o", "p", "d">>,
          <<"l", "u", "n", "g", " ", "d", "i", "s", "e", "a", "s", "e">>,
          <<"r", "e", "s", "p", "i", "r", "a", "t", "o", "r", "y", " ", "d", "i", "s", "e", "a", "s", "e">>,
          <<"p", "u", "l", "m", "o", "n", "a", "r", "y", " ", "d", "i", "s", "e", "a", "s", "e">>,
          <<"c", "o", "v", "i", "d", "-", "1", "9">>,
          <<"p", "n", "e", "u", "m", "o", "n", "i", "a">>
      >>]
    >>

\* impact_phrases of _calculate_impact_score
impact_phrases ==
    <<
      <<"f", "i", "r", "s", "t">>,
      <<"n", "o", "v", "e", "l">>,
      <<"b", "r", "e", "a", "k", "t", "h", "r", "o", "u", "g", "h">>,
      <<"s", "i", "g", "n", "i", "f", "i", "c", "a", "n", "t">>,
      <<"i", "m", "p", "o", "r", "t", "a", "n", "t">>,
      <<"m", "a", "j", "o", "r", " ", "a", "d", "v", "a", "n", "c", "e">>,
      <<"k", "e", "y", " ", "f", "i", "n", "d", "i", "n", "g">>,
      <<"i", "n", "n", "o", "v", "a", "t", "i", "v", "e">>
    >>

\* finding_patterns of _extract_key_findings: each regular expression
\* as the set of the lower-case strings it matches
finding_patterns ==
    <<
      {<<"w", "e", " ", "f", "o", "u", "n", "d">>,
       <<"w", "e", " ", "i", "d", "e", "n", "t", "i", "f", "i", "e", "d">>,
       <<"w", "e", " ", "d", "i", "s", "c", "o", "v", "e", "r", "e", "d">>,
       <<"w", "e", " ", "o", "b", "s", "e", "r", "v", "e", "d">>,
       <<"w", "e", " ", "s", "h", "o", "w", "e", "d">>},
      {<<"r", "e", "s", "u", "l", "t", "s", " ", "s", "h", "o", "w", "e", "d">>,
       <<"r", "e", "s", "u", "l", "t", "s", " ", "d", "e", "m", "o", "n", "s", "t", "r", "a", "t", "e", "d">>,
       <<"r", "e", "s", "u", "l", "t", "s", " ", "i", "n", "d", "i", "c", "a", "t", "e", "d">>,
       <<"r", "e", "s", "u", "l", "t", "s", " ", "r", "e", "v", "e", "a", "l", "e", "d">>},
      {<<"s", "i", "g", "n", "i", "f", "i", "c", "a", "n", "t", " ", "a", "s", "s", "o", "c", "i", "a", "t", "e", "d">>,
       <<"s", "i", "g", "n", "i", "f", "i", "c", "a", "n", "t", "l", "y", " ", "a", "s", "s", "o", "c", "i", "a", "t", "e", "d">>},
      {<<"s", "t", "r", "o", "n", "g", " ", "c", "o", "r", "r", "e", "l", "a", "t", "e", "d">>,
       <<"s", "t", "r", "o", "n", "g", "l", "y", " ", "c", "o", "r", "r", "e", "l", "a", "t", "e", "d">>},
      {<<"k", "e", "y", " ", "f", "i", "n", "d", "i", "n", "g">>},
      {<<"n", "o", "v", "e", "l", " ", "f", "i", "n", "d", "i", "n", "g">>,
       <<"n", "o", "v", "e", "l", " ", "d", "i", "s", "c", "o", "v", "e", "r", "y">>,
       <<"n", "o", "v", "e", "l", " ", "a", "s", "s", "o", "c", "i", "a", "t", "i", "o", "n">>}
    >>

\* len(text) above which spaCy's nlp(text) raises ValueError
NlpMaxLength == 1000000

\* _text_contains_keywords(text.lower(), keywords)
TextContainsKeywords(text, keywords) ==
    \E i \in 1..Len(keywords) : IsSubstr(Lower(keywords[i]), text)

\* doc.sents: the text cut after each full stop that a space follows, each
\* sentence stripped
RECURSIVE SentsFrom(_, _, _)
SentsFrom(s, start, i) ==
    IF i > Len(s)
    THEN IF Strip(SubSeq(s, start, Len(s))) = << >> THEN << >>
         ELSE << Strip(SubSeq(s, start, Len(s))) >>
    ELSE IF s[i] = "." /\ i < Len(s) /\ s[i + 1] = " "
    THEN << Strip(SubSeq(s, start, i)) >> \o SentsFrom(s, i + 1, i + 1)
    ELSE SentsFrom(s, start, i + 1)

Sents(s) == SentsFrom(s, 1, 1)

NlpRaises(text) == TextLen(text) > NlpMaxLength

\* re.search(pattern, sent.text, re.IGNORECASE) for any pattern
IsFinding(sent) ==
    \E p \in 1..Len(finding_patterns) :
        \E alt \in finding_patterns[p] : IsSubstr(alt, Lower(sent))

\* _extract_key_findings(text), when nlp(text) does not raise
ExtractKeyFindings(text) == SelectSeq(Sents(text.s), IsFinding)

\* np.log1p(float(citations)) in units of 10^-6, rounded down
Log1pE6(c) ==
    CASE c = 0 -> 0
      [] c = 1 -> 693147
      [] c = 2 -> 1098612
      [] c = 3 -> 1386294
      [] c = 5 -> 1791759
      [] c = 12 -> 2564949
      [] c = 1000 -> 6908754

\* np.log1p(float(citations)) / 10: NaN below -1, -inf at -1
CitationScore(citations) ==
    IF citations < 0 - 1 THEN NaN
    ELSE IF citations = 0 - 1 THEN NegInf
    ELSE Fin(Log1pE6(citations))

\* the occurrences of `a` in `b`, each start position counted
Occurrences(a, b) ==
    Cardinality({i \in 0..(Len(b) - Len(a)) : MatchesAt(a, b, i)})

RECURSIVE SumOccurrences(_, _)
SumOccurrences(phrases, s) ==
    IF phrases = << >> THEN 0
    ELSE Occurrences(Head(phrases), s) + SumOccurrences(Tail(phrases), s)

\* the count with every repeated occurrence counted
ImpactCountRepeats(text) == SumOccurrences(impact_phrases, Lower(text.s))

\* sum(1 for phrase in impact_phrases if phrase in text.lower())
ImpactCount(text) ==
    Cardinality({i \in 1..Len(impact_phrases) : IsSubstr(impact_phrases[i], Lower(text.s))})

\* impact_count / len(impact_phrases)
PhraseScore(text) == Fin((ImpactCount(text) * ScoreUnit) \div Len(impact_phrases))

\* _calculate_impact_score(text, citations)
CalculateImpactScore(text, citations) ==
    FAdd(CitationScore(citations), PhraseScore(text))

\* the contribution of publication `idx` to one category;
\* src is the position of the publication in the corpus
Contribution(pub, idx, text, citations) ==
    [title        |-> GetOrEmpty(pub.title),
     year         |-> IF pub.year = Absent
                      THEN Str(<<"U", "n", "k", "n", "o", "w", "n">>) ELSE pub.year,
     journal      |-> GetOrEmpty(pub.journal),
     citations    |-> citations,
     findings     |-> ExtractKeyFindings(text),
     doi          |-> GetOrEmpty(pub.doi),
     pubmed_id    |-> GetOrEmpty(pub.pubmed_id),
     impact_score |-> CalculateImpactScore(text, citations),
     src          |-> idx]

\* every category taken as matched, whatever the text
MatchedCategoriesAll(text) == disease_categories


\* the categories whose keywords the text contains, in dict order
MatchedCategories(text) ==
    SelectSeq(disease_categories,
              LAMBDA c : TextContainsKeywords(Lower(text.s), c.keywords))

\* contributions[category].append(contribution) on a defaultdict(list)
AppendContribution(contribs, category, c) ==
    IF IndexOf(contribs, category) = 0
    THEN Append(contribs, [id |-> category, items |-> << c >>])
    ELSE [contribs EXCEPT ![IndexOf(contribs, category)].items = Append(@, c)]

RECURSIVE AppendToCategories(_, _, _)
AppendToCategories(contribs, cats, c) ==
    IF cats = << >> THEN contribs
    ELSE AppendToCategories(AppendContribution(contribs, Head(cats).category, c),
                            Tail(cats), c)

\* whether the body of the loop over self.publications raises
PublicationRaises(pub) ==
    \/ CoerceCitations(pub.total_citations).out # "ok"
    \/ /\ MatchedCategories(PubText(pub)) # << >>
       /\ NlpRaises(PubText(pub))

\* the body of the loop over self.publications, when it does not raise
ProcessPublication(contribs, pub, idx) ==
    LET text      == PubText(pub)
        citations == CoerceCitations(pub.total_citations).v
        c         == Contribution(pub, idx, text, citations)
    IN  IF c.findings = << >> THEN contribs
        ELSE AppendToCategories(contribs, MatchedCategories(text), c)

(***************************************************************************)
(* list.sort(key=lambda x: x['impact_score'], reverse=True) on a list of   *)
(* fewer than 64 items, as CPython sorts it: the list is reversed, sorted  *)
(* ascending by count_run and binary insertion, and reversed again.        *)
(***************************************************************************)
Reverse(l) == [i \in 1..Len(l) |-> l[Len(l) + 1 - i]]

KeyLt(x, y) == FLt(x.impact_score, y.impact_score)

\* count_run: the length of the run at the head of l, and whether it is a
\* strictly descending one
RECURSIVE RunLength(_, _, _)
RunLength(l, n, desc) ==
    IF n >= Len(l) THEN n
    ELSE IF desc = KeyLt(l[n + 1], l[n]) THEN RunLength(l, n + 1, desc)
    ELSE n

\* binarysort: the position pivot is inserted at in the sorted prefix
RECURSIVE InsertPos(_, _, _, _)
InsertPos(l, pivot, lo, hi) ==
    IF lo >= hi THEN lo
    ELSE LET p == lo + ((hi - lo) \div 2)
         IN  IF KeyLt(pivot, l[p]) THEN InsertPos(l, pivot, lo, p)
             ELSE InsertPos(l, pivot, p + 1, hi)

RECURSIVE BinarySort(_, _)
BinarySort(l, start) ==
    IF start > Len(l) THEN l
    ELSE LET pivot == l[start]
             pos   == InsertPos(l, pivot, 1, start)
             moved == SubSeq(l, 1, pos - 1) \o << pivot >> \o SubSeq(l, pos, start - 1)
                      \o SubSeq(l, start + 1, Len(l))
         IN  BinarySort(moved, start + 1)

SortAscending(l) ==
    IF Len(l) < 2 THEN l
    ELSE LET desc == KeyLt(l[2], l[1])
             n    == RunLength(l, 2, desc)
             run  == IF desc THEN Reverse(SubSeq(l, 1, n)) \o SubSeq(l, n + 1, Len(l))
                     ELSE l
         IN  BinarySort(run, n + 1)

SortByImpactDescending(l) == Reverse(SortAscending(Reverse(l)))

SortContributions(l) == SortByImpactDescending(l)

\* for category in contributions: contributions[category].sort(...)
SortAll(contribs) ==
    [i \in 1..Len(contribs) |->
        [contribs[i] EXCEPT !.items = SortContributions(contribs[i].items)]]

(***************************************************************************)
(* IntegratedAnalyzer                                                      *)
(***************************************************************************)
\* the fields of a list of subcategories, with the names they are mapped to
RECURSIVE SubcatMappings(_, _, _)
SubcatMappings(mappings, cat_name, subs) ==
    IF subs = << >> THEN mappings
    ELSE LET sub == Head(subs)
             RECURSIVE put(_, _)
             put(m, fields) ==
                 IF fields = << >> THEN m
                 ELSE LET f == Head(fields)
                          e == [id          |-> f.field_id,
                                name        |-> f.name,
                                type        |-> f.type,
                                category    |-> cat_name,
                                subcategory |-> sub.name]
                      IN  put(IF IndexOf(m, f.field_id) = 0 THEN Append(m, e)
                              ELSE [m EXCEPT ![IndexOf(m, f.field_id)] = e],
                              Tail(fields))
         IN  SubcatMappings(put(mappings, sub.fields), cat_name, Tail(subs))

\* _create_field_mappings()
RECURSIVE CreateFieldMappingsFrom(_, _)
CreateFieldMappingsFrom(mappings, cats) ==
    IF cats = << >> THEN mappings
    ELSE CreateFieldMappingsFrom(
             SubcatMappings(mappings, Head(cats).name, Head(cats).subcategories),
             Tail(cats))

CreateFieldMappings(showcase) == CreateFieldMappingsFrom(<< >>, showcase)

Letter ==
    {"a", "b", "c", "d", "e", "f", "g", "h", "i", "j", "k", "l", "m", "n", "o",
     "p", "q", "r", "s", "t", "u", "v", "w", "x", "y", "z",
     "A", "B", "C", "D", "E", "F", "G", "H", "I", "J", "K", "L", "M", "N", "O",
     "P", "Q", "R", "S", "T", "U", "V", "W", "X", "Y", "Z"}

\* \w of a regular expression
WordChar == Letter \cup Digit \cup {"_"}

\* the index of the last digit of the run of digits that starts at i,
\* i - 1 when there is no digit at i
RECURSIVE DigitRunEnd(_, _)
DigitRunEnd(s, i) ==
    IF i <= Len(s) /\ s[i] \in Digit THEN DigitRunEnd(s, i + 1) ELSE i - 1

\* the index of the last character of the match of \b\d+-\d+\.\d+\b that
\* starts at i, 0 when none starts there
FieldPatternEnd(s, i) ==
    LET e1 == DigitRunEnd(s, i)
        e2 == DigitRunEnd(s, e1 + 2)
        e3 == DigitRunEnd(s, e2 + 2)
    IN  IF /\ (i = 1 \/ s[i - 1] \notin WordChar)
           /\ e1 >= i
           /\ e1 + 1 <= Len(s) /\ s[e1 + 1] = "-"
           /\ e2 >= e1 + 2
           /\ e2 + 1 <= Len(s) /\ s[e2 + 1] = "."
           /\ e3 >= e2 + 2
           /\ (e3 = Len(s) \/ s[e3 + 1] \notin WordChar)
        THEN e3 ELSE 0

\* re.findall(field_pattern, text): the matches from left to right, the
\* search going on behind each match
RECURSIVE FindAllFrom(_, _)
FindAllFrom(s, i) ==
    IF i > Len(s) THEN << >>
    ELSE IF FieldPatternEnd(s, i) # 0
    THEN << SubSeq(s, i, FieldPatternEnd(s, i)) >> \o FindAllFrom(s, FieldPatternEnd(s, i) + 1)
    ELSE FindAllFrom(s, i + 1)

FindAll(s) == FindAllFrom(s, 1)

\* _get_field_context(text, field_id), when nlp(text) does not raise
GetFieldContext(text, field_id) ==
    SelectSeq(Sents(text.s), LAMBDA sent : IsSubstr(field_id, sent))

\* field_usage = defaultdict(...)
NewFieldUsage == << >>

\* if field_id in self.field_mappings
IsMappedFieldUnchecked(mappings, field_id) == TRUE

IsMappedField(mappings, field_id) == IndexOf(mappings, field_id) # 0

\* field_usage[field_id]['mentions'] = 1, an assignment for the increment
MentionsAssigned(mentions) == 1

\* field_usage[field_id]['mentions'] += 1
MentionsAdded(mentions) == mentions + 1

\* the statements under the test, with a mention counted only when the
\* publication is new to the paper set
UpdateUsageOncePerPaper(usage, field_id, pub, has_nlp) ==
    LET u1  == IF IndexOf(usage, field_id) # 0 THEN usage
               ELSE Append(usage, [id |-> field_id, mentions |-> 0, papers |-> {},
                                   contexts |-> << >>, years |-> {}])
        k   == IndexOf(u1, field_id)
        old == u1[k]
    IN  [u1 EXCEPT ![k] =
            [id       |-> field_id,
             mentions |-> IF GetOrNone(pub.title) \in old.papers
                          THEN old.mentions ELSE old.mentions + 1,
             papers   |-> old.papers \cup {GetOrNone(pub.title)},
             years    |-> old.years \cup {GetOrNone(pub.year)},
             contexts |-> IF has_nlp
                          THEN old.contexts \o GetFieldContext(PubText(pub), field_id)
                          ELSE old.contexts]]


\* the statements under `if field_id in self.field_mappings`
UpdateUsage(usage, field_id, pub, has_nlp) ==
    LET u1  == IF IndexOf(usage, field_id) # 0 THEN usage
               ELSE Append(usage, [id |-> field_id, mentions |-> 0, papers |-> {},
                                   contexts |-> << >>, years |-> {}])
        k   == IndexOf(u1, field_id)
        old == u1[k]
    IN  [u1 EXCEPT ![k] =
            [id       |-> field_id,
             mentions |-> MentionsAdded(old.mentions),
             papers   |-> old.papers \cup {GetOrNone(pub.title)},
             years    |-> old.years \cup {GetOrNone(pub.year)},
             contexts |-> IF has_nlp
                          THEN old.contexts \o GetFieldContext(PubText(pub), field_id)
                          ELSE old.contexts]]

\* the body of the loop over found_fields
ProcessMention(usage, mappings, field_id, pub, has_nlp) ==
    IF IsMappedField(mappings, field_id)
    THEN UpdateUsage(usage, field_id, pub, has_nlp)
    ELSE usage

MentionRaises(mappings, field_id, pub, has_nlp) ==
    /\ IsMappedField(mappings, field_id)
    /\ has_nlp
    /\ NlpRaises(PubText(pub))

\* the entry of a category after one field of it is counted, with
\* used_fields growing by the mentions of the field
CoverFieldByMentions(entry, usage, field_id) ==
    LET k == IndexOf(usage, field_id)
    IN  IF k = 0 THEN [entry EXCEPT !.total_fields = @ + 1]
        ELSE [entry EXCEPT !.total_fields = @ + 1,
                           !.used_fields = @ + usage[k].mentions,
                           !.total_mentions = @ + usage[k].mentions,
                           !.papers = @ \cup usage[k].papers]

\* the entry of a category after one field of it is counted: the body
\* of the loop of analyze_category_coverage
CoverField(entry, usage, field_id) ==
    LET k == IndexOf(usage, field_id)
    IN  IF k = 0 THEN [entry EXCEPT !.total_fields = @ + 1]
        ELSE [entry EXCEPT !.total_fields = @ + 1,
                           !.used_fields = @ + 1,
                           !.total_mentions = @ + usage[k].mentions,
                           !.papers = @ \cup usage[k].papers]

\* analyze_category_coverage()
RECURSIVE CategoryCoverageFrom(_, _, _)
CategoryCoverageFrom(cov, mappings, usage) ==
    IF mappings = << >> THEN cov
    ELSE LET m  == Head(mappings)
             c1 == IF IndexOf(cov, m.category) # 0 THEN cov
                   ELSE Append(cov, [id |-> m.category, total_fields |-> 0,
                                     used_fields |-> 0, total_mentions |-> 0,
                                     papers |-> {}])
             k  == IndexOf(c1, m.category)
         IN  CategoryCoverageFrom([c1 EXCEPT ![k] = CoverField(c1[k], usage, m.id)],
                                  Tail(mappings), usage)

CategoryCoverage(mappings, usage) == CategoryCoverageFrom(<< >>, mappings, usage)

\* (data['used_fields'] / data['total_fields'] * 100)
\*     if data['total_fields'] > 0 else 0
UsagePercentage(data) ==
    IF data.total_fields > 0
    THEN Fin((data.used_fields * 100 * ScoreUnit) \div data.total_fields)
    ELSE Fin(0)

\* the rows of coverage_data of create_visualizations
CoverageData(cov) ==
    [i \in 1..Len(cov) |->
        [category         |-> cov[i].id,
         total_fields     |-> cov[i].total_fields,
         used_fields      |-> cov[i].used_fields,
         usage_percentage |-> UsagePercentage(cov[i])]]

(***************************************************************************)
(* The taxonomies and the publications the analyzers are run on.           *)
(***************************************************************************)
RECURSIVE ProcessCategoryRows(_, _)
ProcessCategoryRows(cats, rows) ==
    IF rows = << >> THEN cats
    ELSE ProcessCategoryRows(ProcessCategoryRow(cats, Head(rows)), Tail(rows))

RECURSIVE ProcessFieldRows(_, _)
ProcessFieldRows(cats, rows) ==
    IF rows = << >> THEN cats
    ELSE ProcessFieldRows(ProcessFieldRow(cats, Head(rows)), Tail(rows))

\* _process_categories(categories_df, fields_df), when no row raises
ProcessCategories(cdf, fdf) ==
    ProcessFieldRows(ProcessCategoryRows(<< >>, cdf), fdf)

ShowcaseA ==
    ProcessCategories(
        << CatRow(<<"1">>, Str(<<"a">>), Str(EmptyStr)),
           CatRow(<<"2">>, Str(<<"a", "b">>), Str(<<"1">>)),
           CatRow(<<"3">>, Str(<<"b">>), Str(<<"1">>)) >>,
        << FieldRow(<<"1", "-", "0", ".", "0">>, Str(<<"a">>)),
           FieldRow(<<"2", "-", "0", ".", "0">>, Str(<<"b">>)),
           FieldRow(<<"3", "-", "0", ".", "0">>, Str(<<"c">>)) >>)

ShowcaseB ==
    ProcessCategories(
        << CatRow(<<"4">>, Str(<<"a">>), Str(<<"2">>)),
           CatRow(<<"6">>, Str(<<"b">>), NonStr) >>,
        << FieldRow(<<"1", "-", "0", ".", "0">>, Str(<<"a">>)),
           FieldRow(<<"1", "-", "0", ".", "0">>, Str(<<"b">>)),
           FieldRow(<<"2", "-", "0", ".", "0">>, Str(<<"c">>)) >>)

ShowcaseC ==
    ProcessCategories(
        << CatRow(<<"1">>, Str(<<"a">>), Str(EmptyStr)) >>,
        << FieldRow(<<"2", "-", "0", ".", "0">>, Str(<<"a">>)) >>)

\* a hierarchy three levels deep, and a field that matches no subcategory
ShowcaseD ==
    ProcessCategories(
        << CatRow(<<"1">>, Str(<<"a">>), Str(EmptyStr)),
           CatRow(<<"2">>, Str(<<"x">>), Str(<<"1">>)),
           CatRow(<<"4">>, Str(<<"y">>), Str(<<"2">>)) >>,
        << FieldRow(<<"1", "-", "0", ".", "0">>, Str(<<"x">>)),
           FieldRow(<<"2", "-", "0", ".", "0">>, Str(<<"y">>)),
           FieldRow(<<"3", "-", "0", ".", "0">>, Str(<<"z">>)) >>)

ShowcasePool == {ShowcaseA, ShowcaseB, ShowcaseC, ShowcaseD}

EngineShowcasePool == {ShowcaseA}

UPub(title, abstract, pad, year) ==
    [title |-> title, abstract |-> abstract, abstract_pad |-> pad,
     year |-> year, journal |-> Absent, doi |-> Absent, pubmed_id |-> Absent,
     total_citations |-> Absent]

UsagePubPool ==
    {
      UPub(Str(<<"t", "1">>),
           Str(<<"f", "i", "e", "l", "d", " ", "1", "-", "0", ".", "0", " ", "u", "s", "e", "d", ".", " ", "a", "g", "a", "i", "n", " ", "1", "-", "0", ".", "0", " ", "h", "e", "r", "e">>),
           0, Str(<<"2", "0", "2", "0">>)),
      UPub(Str(<<"t", "2">>),
           Str(<<"s", "e", "e", " ", "2", "-", "0", ".", "0", " ", "a", "n", "d", " ", "1", "2", "-", "3", ".", "4">>),
           0, Absent),
      UPub(Str(<<"t", "1">>),
           Str(<<"1", "-", "0", ".", "0">>),
           0, Str(<<"2", "0", "2", "1">>)),
      UPub(Absent,
           Str(<<"x", "1", "-", "0", ".", "0", " ", "1", "1", "-", "0", ".", "0", " ", "1", "-", "0", ".", "0", "a", " ", "1", "-", "0", ".", "0", ".">>),
           0, NoneVal),
      UPub(NoneVal,
           Str(<<"3", "-", "0", ".", "0", " ", "2", "-", "0", ".", "0">>),
           0, Str(<<"2", "0", "2", "0">>)),
      UPub(Str(<<"t", "3">>),
           Str(<<"1", "-", "0", ".", "0">>),
           NlpMaxLength, Str(<<"2", "0", "2", "0">>)),
      UPub(Absent,
           Absent,
           0, Absent)
    }

(***************************************************************************)
(* IntegratedAnalyzer as a state machine: the constructor scans one        *)
(* publication per step and counts one mention per step.                   *)
(***************************************************************************)
UsageIdle ==
    /\ showcase_data = << >>
    /\ nlp = FALSE
    /\ field_mappings = << >>
    /\ field_usage = << >>
    /\ found = << >>
    /\ upc = "idle"
    /\ ui = 0
    /\ uresults = << >>
    /\ category_coverage = << >>
    /\ coverage_data = << >>

(***************************************************************************)
(* The publications the model draws its corpus from.                       *)
(***************************************************************************)
Pub(title, abstract, pad, cites) ==
    [title |-> title, abstract |-> abstract, abstract_pad |-> pad,
     year |-> Absent, journal |-> Absent, doi |-> Absent, pubmed_id |-> Absent,
     total_citations |-> cites]

ContribPubPool ==
    {
      Pub(Str(<<"d", "i", "a", "b", "e", "t", "e", "s">>),
          Str(<<"w", "e", " ", "f", "o", "u", "n", "d", " ", "a", " ", "n", "o", "v", "e", "l", " ", "a", "n", "d", " ", "i", "m", "p", "o", "r", "t", "a", "n", "t", " ", "m", "a", "r", "k", "e", "r", ".">>),
          0, Str(<<"1", "0", "0", "0">>)),
      Pub(Str(<<"d", "i", "a", "b", "e", "t", "e", "s">>),
          Str(<<"w", "e", " ", "f", "o", "u", "n", "d", " ", "x", ".">>),
          0, Str(<<"0">>)),
      Pub(Str(<<"d", "i", "a", "b", "e", "t", "e", "s">>),
          Str(<<"w", "e", " ", "f", "o", "u", "n", "d", " ", "y", ".">>),
          0, Absent),
      Pub(Str(<<"d", "i", "a", "b", "e", "t", "e", "s">>),
          Str(<<"w", "e", " ", "f", "o", "u", "n", "d", " ", "x", ".">>),
          0, Str(<<"-", "5">>)),
      Pub(Str(<<"d", "i", "a", "b", "e", "t", "e", "s">>),
          Str(<<"w", "e", " ", "f", "o", "u", "n", "d", " ", "x", ".">>),
          0, Str(<<"-", "1">>)),
      Pub(Str(<<"d", "i", "a", "b", "e", "t", "e", "s">>),
          Str(<<"w", "e", " ", "f", "o", "u", "n", "d", " ", "x", ".">>),
          0, Str(<<"i", "n", "f">>)),
      Pub(Str(<<"D", "i", "a", "b", "e", "t", "e", "s">>),
          Str(<<"W", "e", " ", "F", "o", "u", "n", "d", " ", "a", " ", "f", "i", "r", "s", "t", ".", " ", "o", "k">>),
          0, Str(<<" ", "2", ".", "7", " ">>)),
      Pub(Str(<<"c", "a", "n", "c", "e", "r", " ", "d", "i", "a", "b", "e", "t", "e", "s">>),
          Str(<<"r", "e", "s", "u", "l", "t", "s", " ", "s", "h", "o", "w", "e", "d", " ", "n", "o", "v", "e", "l", " ", "n", "o", "v", "e", "l", " ", "y", ".">>),
          0, Str(<<"1", "2">>)),
      Pub(Str(<<"a", "s", "t", "h", "m", "a">>),
          Str(<<"n", "o", " ", "f", "i", "n", "d", "i", "n", "g", " ", "h", "e", "r", "e">>),
          0, Str(<<"3">>)),
      Pub(Str(<<"m", "i", "s", "c">>),
          Str(<<"w", "e", " ", "f", "o", "u", "n", "d", " ", "x", ".">>),
          0, Str(<<"1", "e", "3">>)),
      Pub(Str(<<"d", "i", "a", "b", "e", "t", "e", "s">>),
          Str(<<"w", "e", " ", "f", "o", "u", "n", "d", " ", "x", ".">>),
          NlpMaxLength, Str(<<"1">>))
    }

EnginePubPool ==
    {
      [Pub(Str(<<"d", "i", "a", "b", "e", "t", "e", "s", " ", "1", "-", "0", ".", "0">>),
           Str(<<"w", "e", " ", "f", "o", "u", "n", "d", " ", "a", " ", "n", "o", "v", "e", "l", " ", "1", "-", "0", ".", "0", " ", "m", "a", "r", "k", "e", "r", ".">>),
           0, Str(<<"1", "0", "0", "0">>)) EXCEPT !.year = Str(<<"2", "0", "2", "0">>)],
      [Pub(Str(<<"d", "i", "a", "b", "e", "t", "e", "s">>),
           Str(<<"w", "e", " ", "f", "o", "u", "n", "d", " ", "x", ".">>),
           0, Absent) EXCEPT !.year = Absent],
      [Pub(Str(<<"d", "i", "a", "b", "e", "t", "e", "s", " ", "2", "-", "0", ".", "0">>),
           Str(<<"w", "e", " ", "f", "o", "u", "n", "d", " ", "y", " ", "i", "n", " ", "2", "-", "0", ".", "0", ".">>),
           0, Str(<<"-", "5">>)) EXCEPT !.year = Str(<<"2", "0", "2", "1">>)],
      [Pub(Str(<<"c", "a", "n", "c", "e", "r">>),
           Str(<<"r", "e", "s", "u", "l", "t", "s", " ", "s", "h", "o", "w", "e", "d", " ", "i", "m", "p", "o", "r", "t", "a", "n", "t", " ", "1", "-", "0", ".", "0", ".">>),
           0, Str(<<"1", "2">>)) EXCEPT !.year = Str(<<"2", "0", "2", "0">>)],
      [Pub(Str(<<"d", "i", "a", "b", "e", "t", "e", "s">>),
           Str(<<"w", "e", " ", "f", "o", "u", "n", "d", " ", "x", ".">>),
           0, Str(<<"i", "n", "f">>)) EXCEPT !.year = Str(<<"2", "0", "2", "0">>)],
      [Pub(Str(<<"x", " ", "1", "-", "0", ".", "0">>),
           Str(<<"1", "-", "0", ".", "0">>),
           NlpMaxLength, Str(<<"1">>)) EXCEPT !.year = Str(<<"2", "0", "2", "0">>)]
    }

(***************************************************************************)
(* analyze_disease_contributions as a state machine: one step per          *)
(* publication.  generate_contribution_report and create_visualizations    *)
(* each call it once.                                                      *)
(***************************************************************************)
AnalyzeCalls == 2

\* the dict of the call before, kept instead of a new one
StaleContributions == contributions

\* contributions = defaultdict(list)
NewContributions == << >>

FetchIdle ==
    /\ fetched = [fields |-> [kind |-> "none", rows |-> << >>],
                  categories |-> [kind |-> "none", rows |-> << >>]]
    /\ self_categories = << >>
    /\ fetch_prev = << >>
    /\ fetch_ret = << >>
    /\ fpc = "idle"
    /\ fetch_calls = 0

ScanIdle ==
    /\ paper = [title |-> Absent]
    /\ scan_fields = [out |-> "idle"]
    /\ scan_diseases = [out |-> "idle"]
    /\ scan_relations = [out |-> "idle"]

PipeIdle ==
    /\ rpc = "idle"
    /\ stage_log = << >>
    /\ pipe_error = "none"

ParserIdle ==
    /\ response = [kind |-> "none"]
    /\ self_publications = << >>
    /\ pub_ret = << >>
    /\ pub_pc = "idle"
    /\ pub_calls = 0
    /\ saved_json = "nothing"

CacheIdle ==
    /\ use_cache = FALSE
    /\ cache_file = [exists |-> FALSE, content |-> << >>]
    /\ max_results = 0
    /\ papers = << >>
    /\ term_idx = 0
    /\ tries = 0
    /\ query = << >>
    /\ spc = "idle"
    /\ searched = 0
    /\ search_ret = << >>
    /\ search_calls = 0

IoIdle == PipeIdle /\ ParserIdle /\ CacheIdle

CoerceIdle ==
    /\ raw_citations = Absent
    /\ coerced = [out |-> "none", v |-> 0]
    /\ cpc = "idle"

ContribIdle ==
    /\ contributions = << >>
    /\ dpc = "idle"
    /\ di = 0
    /\ dresults = << >>

(***************************************************************************)
(* _process_categories as a state machine: one step per table row.         *)
(***************************************************************************)
TaxIdle ==
    /\ categories_df = << >>
    /\ fields_df = << >>
    /\ categories = << >>
    /\ tpc = "idle"
    /\ ti = 0

SameColumns(df, col) ==
    \A i, j \in 1..Len(df) : (df[i][col] = Absent) <=> (df[j][col] = Absent)

TaxInit ==
    /\ categories_df \in SeqUpTo(CatRowPool, MaxCatRows)
    /\ fields_df \in SeqUpTo(FieldRowPool, MaxFieldRows)
    /\ \A col \in {"title", "cat_name", "parent_id"} : SameColumns(categories_df, col)
    /\ \A col \in {"title", "field_name", "category", "cat_id"} : SameColumns(fields_df, col)
    /\ publications = << >>
    /\ ContribIdle
    /\ UsageIdle
    /\ CoerceIdle
    /\ FetchIdle
    /\ ScanIdle
    /\ IoIdle
    /\ categories = << >>
    /\ tpc = "cats"
    /\ ti = 1

CategoryRowStep ==
    /\ tpc = "cats"
    /\ ti <= Len(categories_df)
    /\ categories' = ProcessCategoryRow(categories, categories_df[ti])
    /\ ti' = ti + 1
    /\ UNCHANGED <<categories_df, fields_df, tpc, publications, contribVars, usageVars, coerceVars, fetchVars, scanVars, ioVars>>

CategoriesDone ==
    /\ tpc = "cats"
    /\ ti > Len(categories_df)
    /\ tpc' = "fields"
    /\ ti' = 1
    /\ UNCHANGED <<categories_df, fields_df, categories, publications, contribVars, usageVars, coerceVars, fetchVars, scanVars, ioVars>>

FieldRowStep ==
    /\ tpc = "fields"
    /\ ti <= Len(fields_df)
    /\ ~FieldRowRaises(categories, fields_df[ti])
    /\ categories' = ProcessFieldRow(categories, fields_df[ti])
    /\ ti' = ti + 1
    /\ UNCHANGED <<categories_df, fields_df, tpc, publications, contribVars, usageVars, coerceVars, fetchVars, scanVars, ioVars>>

FieldRowRaise ==
    /\ tpc = "fields"
    /\ ti <= Len(fields_df)
    /\ FieldRowRaises(categories, fields_df[ti])
    /\ tpc' = "raised"
    /\ UNCHANGED <<categories_df, fields_df, categories, ti, publications, contribVars, usageVars, coerceVars, fetchVars, scanVars, ioVars>>

\* return dict(categories)
ProcessReturn ==
    /\ tpc = "fields"
    /\ ti > Len(fields_df)
    /\ tpc' = "done"
    /\ UNCHANGED <<categories_df, fields_df, categories, ti, publications, contribVars, usageVars, coerceVars, fetchVars, scanVars, ioVars>>

TaxNext ==
    \/ CategoryRowStep
    \/ CategoriesDone
    \/ FieldRowStep
    \/ FieldRowRaise
    \/ ProcessReturn

SpecTaxonomy == TaxInit /\ [][TaxNext]_vars

ContribInit ==
    /\ publications \in SeqUpTo(ContribPubPool, MaxPubs)
    /\ contributions = << >>
    /\ dpc = "call"
    /\ di = 0
    /\ dresults = << >>
    /\ TaxIdle
    /\ UsageIdle
    /\ CoerceIdle
    /\ FetchIdle
    /\ ScanIdle
    /\ IoIdle

CallAnalyze ==
    /\ dpc = "call"
    /\ contributions' = NewContributions
    /\ di' = 1
    /\ dpc' = "loop"
    /\ UNCHANGED <<dresults, publications, taxVars, usageVars, coerceVars, fetchVars, scanVars, ioVars>>

PublicationStep ==
    /\ dpc = "loop"
    /\ di <= Len(publications)
    /\ ~PublicationRaises(publications[di])
    /\ contributions' = ProcessPublication(contributions, publications[di], di)
    /\ di' = di + 1
    /\ UNCHANGED <<dpc, dresults, publications, taxVars, usageVars, coerceVars, fetchVars, scanVars, ioVars>>

\* an exception leaves the loop, the function and its callers
PublicationRaise ==
    /\ dpc = "loop"
    /\ di <= Len(publications)
    /\ PublicationRaises(publications[di])
    /\ dpc' = "raised"
    /\ UNCHANGED <<contributions, di, dresults, publications, taxVars, usageVars, coerceVars, fetchVars, scanVars, ioVars>>

\* the sort of every category, and return dict(contributions)
AnalyzeReturn ==
    /\ dpc = "loop"
    /\ di > Len(publications)
    /\ contributions' = SortAll(contributions)
    /\ dresults' = Append(dresults, SortAll(contributions))
    /\ dpc' = IF Len(dresults) + 1 < AnalyzeCalls THEN "call" ELSE "done"
    /\ UNCHANGED <<di, publications, taxVars, usageVars, coerceVars, fetchVars, scanVars, ioVars>>

ContribNext ==
    \/ CallAnalyze
    \/ PublicationStep
    \/ PublicationRaise
    \/ AnalyzeReturn

SpecContrib == ContribInit /\ [][ContribNext]_vars

UsageInit ==
    /\ publications \in SeqUpTo(UsagePubPool, MaxPubs)
    /\ showcase_data \in ShowcasePool
    /\ nlp \in BOOLEAN
    /\ field_mappings = << >>
    /\ field_usage = << >>
    /\ found = << >>
    /\ upc = "new"
    /\ ui = 0
    /\ uresults = << >>
    /\ category_coverage = << >>
    /\ coverage_data = << >>
    /\ TaxIdle
    /\ ContribIdle
    /\ CoerceIdle
    /\ FetchIdle
    /\ ScanIdle
    /\ IoIdle

\* __init__ up to the call of _analyze_field_usage
Construct ==
    /\ upc = "new"
    /\ field_mappings' = CreateFieldMappings(showcase_data)
    /\ field_usage' = NewFieldUsage
    /\ found' = << >>
    /\ ui' = 1
    /\ upc' = "scan"
    /\ UNCHANGED <<showcase_data, nlp, uresults, category_coverage, coverage_data,
                   publications, taxVars, contribVars, coerceVars, fetchVars, scanVars, ioVars>>

\* found_fields = re.findall(field_pattern, text)
ScanPublication ==
    /\ upc = "scan"
    /\ ui <= Len(publications)
    /\ found' = FindAll(PubText(publications[ui]).s)
    /\ upc' = "mentions"
    /\ UNCHANGED <<showcase_data, nlp, field_mappings, field_usage, ui, uresults,
                   category_coverage, coverage_data, publications, taxVars, contribVars, coerceVars, fetchVars, scanVars, ioVars>>

MentionStep ==
    /\ upc = "mentions"
    /\ found # << >>
    /\ ~MentionRaises(field_mappings, Head(found), publications[ui], nlp)
    /\ field_usage' = ProcessMention(field_usage, field_mappings, Head(found),
                                     publications[ui], nlp)
    /\ found' = Tail(found)
    /\ UNCHANGED <<showcase_data, nlp, field_mappings, upc, ui, uresults,
                   category_coverage, coverage_data, publications, taxVars, contribVars, coerceVars, fetchVars, scanVars, ioVars>>

\* nlp(text) raises in _get_field_context: the constructor fails
MentionRaise ==
    /\ upc = "mentions"
    /\ found # << >>
    /\ MentionRaises(field_mappings, Head(found), publications[ui], nlp)
    /\ upc' = "raised"
    /\ UNCHANGED <<showcase_data, nlp, field_mappings, field_usage, found, ui, uresults,
                   category_coverage, coverage_data, publications, taxVars, contribVars, coerceVars, fetchVars, scanVars, ioVars>>

PublicationDone ==
    /\ upc = "mentions"
    /\ found = << >>
    /\ ui' = ui + 1
    /\ upc' = "scan"
    /\ UNCHANGED <<showcase_data, nlp, field_mappings, field_usage, found, uresults,
                   category_coverage, coverage_data, publications, taxVars, contribVars, coerceVars, fetchVars, scanVars, ioVars>>

\* return field_usage: the analyzer is constructed
UsageReturn ==
    /\ upc = "scan"
    /\ ui > Len(publications)
    /\ uresults' = Append(uresults, field_usage)
    /\ upc' = "ready"
    /\ UNCHANGED <<showcase_data, nlp, field_mappings, field_usage, found, ui,
                   category_coverage, coverage_data, publications, taxVars, contribVars, coerceVars, fetchVars, scanVars, ioVars>>

\* self.field_usage[field_id] with no test before it: the defaultdict makes
\* a record for a key it does not hold
LookupUsageVivify(usage, field_id) ==
    IF IndexOf(usage, field_id) # 0 THEN usage
    ELSE Append(usage, [id |-> field_id, mentions |-> 0, papers |-> {},
                        contexts |-> << >>, years |-> {}])

\* self.field_usage after `if field_id in self.field_usage`, the test that
\* guards every self.field_usage[field_id] of analyze_category_coverage and
\* generate_reports: a membership test makes no key
LookupUsage(usage, field_id) == usage

\* self.field_usage after the loop over self.field_mappings.items()
RECURSIVE UsageAfterLookups(_, _)
UsageAfterLookups(usage, mappings) ==
    IF mappings = << >> THEN usage
    ELSE UsageAfterLookups(LookupUsage(usage, Head(mappings).id), Tail(mappings))

\* generate_reports(): category_coverage = self.analyze_category_coverage()
GenerateReports ==
    /\ upc = "ready"
    /\ category_coverage' = CategoryCoverage(field_mappings, field_usage)
    /\ field_usage' = UsageAfterLookups(field_usage, field_mappings)
    /\ UNCHANGED <<showcase_data, nlp, field_mappings, found, upc, ui,
                   uresults, coverage_data, publications, taxVars, contribVars, coerceVars, fetchVars, scanVars, ioVars>>

\* create_visualizations(): the coverage table of the heatmap
CreateVisualizations ==
    /\ upc = "ready"
    /\ category_coverage' = CategoryCoverage(field_mappings, field_usage)
    /\ coverage_data' = CoverageData(CategoryCoverage(field_mappings, field_usage))
    /\ field_usage' = UsageAfterLookups(field_usage, field_mappings)
    /\ UNCHANGED <<showcase_data, nlp, field_mappings, found, upc, ui,
                   uresults, publications, taxVars, contribVars, coerceVars, fetchVars, scanVars, ioVars>>

UsageNext ==
    \/ Construct
    \/ ScanPublication
    \/ MentionStep
    \/ MentionRaise
    \/ PublicationDone
    \/ UsageReturn
    \/ GenerateReports
    \/ CreateVisualizations

SpecUsage == UsageInit /\ [][UsageNext]_vars

(***************************************************************************)
(* The engine run on one corpus: the disease analysis, then the integrated *)
(* analysis, in the order of run_pipeline; the integrated analyzer is then *)
(* built a second time on the same inputs.                                 *)
(***************************************************************************)
EngineRuns == 2

\* run_pipeline goes on only with a corpus and a taxonomy that are not empty
EngineInit ==
    /\ publications \in SeqUpTo(EnginePubPool, MaxPubs)
    /\ publications # << >>
    /\ showcase_data \in EngineShowcasePool
    /\ nlp \in BOOLEAN
    /\ field_mappings = << >>
    /\ field_usage = << >>
    /\ found = << >>
    /\ upc = "idle"
    /\ ui = 0
    /\ uresults = << >>
    /\ category_coverage = << >>
    /\ coverage_data = << >>
    /\ contributions = << >>
    /\ dpc = "call"
    /\ di = 0
    /\ dresults = << >>
    /\ TaxIdle
    /\ CoerceIdle
    /\ FetchIdle
    /\ ScanIdle
    /\ IoIdle

\* perform_integrated_analysis follows analyze_disease_contributions
StartIntegrated ==
    /\ dpc = "done"
    /\ upc = "idle"
    /\ upc' = "new"
    /\ UNCHANGED <<showcase_data, nlp, field_mappings, field_usage, found, ui, uresults,
                   category_coverage, coverage_data, publications, taxVars, contribVars, coerceVars, fetchVars, scanVars, ioVars>>

\* the engine is run again on the same taxonomy and corpus
RunAgain ==
    /\ upc = "ready"
    /\ Len(uresults) < EngineRuns
    /\ upc' = "new"
    /\ UNCHANGED <<showcase_data, nlp, field_mappings, field_usage, found, ui, uresults,
                   category_coverage, coverage_data, publications, taxVars, contribVars, coerceVars, fetchVars, scanVars, ioVars>>

EngineNext ==
    \/ ContribNext
    \/ StartIntegrated
    \/ UsageNext
    \/ RunAgain

SpecEngine == EngineInit /\ [][EngineNext]_vars

(***************************************************************************)
(* The citation coercion on its own: one raw value, coerced once.          *)
(***************************************************************************)
MaxRawLen == 3

RawAlphabet == {"1", "5", "-", ".", "n", "a", "i", "f", " "}

RawPool ==
    {Absent, NoneVal, IntVal(<<"5">>), IntVal(<<"-", "1">>), FloatVal(<<"2", ".", "5">>),
     FloatVal(<<"i", "n", "f">>), FloatVal(<<"n", "a", "n">>)}
    \cup { Str(s) : s \in SeqUpTo(RawAlphabet, MaxRawLen) }

CoerceInit ==
    /\ raw_citations \in RawPool
    /\ coerced = [out |-> "none", v |-> 0]
    /\ cpc = "start"
    /\ publications = << >>
    /\ TaxIdle
    /\ ContribIdle
    /\ UsageIdle
    /\ FetchIdle
    /\ ScanIdle
    /\ IoIdle

\* the try statement ends with `citations` bound
CoerceStep ==
    /\ cpc = "start"
    /\ CoerceCitations(raw_citations).out = "ok"
    /\ coerced' = CoerceCitations(raw_citations)
    /\ cpc' = "done"
    /\ UNCHANGED <<raw_citations, publications, taxVars, contribVars, usageVars, fetchVars, scanVars, ioVars>>

\* the try statement is left by an exception it does not catch
CoerceRaise ==
    /\ cpc = "start"
    /\ CoerceCitations(raw_citations).out # "ok"
    /\ coerced' = CoerceCitations(raw_citations)
    /\ cpc' = "raised"
    /\ UNCHANGED <<raw_citations, publications, taxVars, contribVars, usageVars, fetchVars, scanVars, ioVars>>

CoerceNext ==
    \/ CoerceStep
    \/ CoerceRaise

SpecCoerce == CoerceInit /\ [][CoerceNext]_vars

(***************************************************************************)
(* UKBShowcaseScraper.fetch_categories, called up to MaxFetchCalls times   *)
(* on one scraper.  _fetch_schema returns a table or None.                 *)
(***************************************************************************)
MaxFetchCalls == 2

NoneDf == [kind |-> "none", rows |-> << >>]
Df(rows) == [kind |-> "df", rows |-> rows]

\* what _fetch_schema('fields') can return
FetchedFieldsPool ==
    { NoneDf,
      Df(<< >>),
      Df(<< FieldRow(<<"1", "-", "0", ".", "0">>, Str(<<"a">>)) >>),
      Df(<< FieldRow(<<"1", "-", "0", ".", "0">>, Str(<<"a">>)),
            FieldRow(<<"2", "-", "0", ".", "0">>, Str(<<"c">>)) >>),
      Df(<< FieldRow(EmptyStr, Str(<<"a">>)) >>) }

\* what _fetch_schema('categories') can return
FetchedCategoriesPool ==
    { NoneDf,
      Df(<< >>),
      Df(<< CatRow(<<"1">>, Str(<<"a">>), Str(EmptyStr)),
            CatRow(<<"2">>, Str(<<"a", "b">>), Str(<<"1">>)) >>),
      Df(<< CatRow(<<"6">>, Str(<<"b">>), NonStr) >>),
      Df(<< CatRow(<<"1">>, Str(<<"a">>), Str(EmptyStr)),
            CatRow(<<"5">>, NonStr, Str(<<"1">>)) >>) }

\* fields_df is None or fields_df.empty, both tables, with None alone tested
SchemasInvalidNoneOnly(f, c) == f.kind = "none" \/ c.kind = "none"

\* fields_df is None or categories_df is None or fields_df.empty
\*     or categories_df.empty
SchemasInvalid(f, c) ==
    \/ f.kind = "none"
    \/ c.kind = "none"
    \/ f.rows = << >>
    \/ c.rows = << >>

\* whether a row of the loop over fields_df raises
RECURSIVE ProcessFieldRowsRaises(_, _)
ProcessFieldRowsRaises(cats, rows) ==
    IF rows = << >> THEN FALSE
    ELSE IF FieldRowRaises(cats, Head(rows)) THEN TRUE
    ELSE ProcessFieldRowsRaises(ProcessFieldRow(cats, Head(rows)), Tail(rows))

\* whether _process_categories(categories_df, fields_df) raises
ProcessCategoriesRaises(cdf, fdf) ==
    ProcessFieldRowsRaises(ProcessCategoryRows(<< >>, cdf), fdf)

\* __init__: self.categories = {}
FetchInit ==
    /\ fetched = [fields |-> NoneDf, categories |-> NoneDf]
    /\ self_categories = << >>
    /\ fetch_prev = << >>
    /\ fetch_ret = << >>
    /\ fpc = "new"
    /\ fetch_calls = 0
    /\ publications = << >>
    /\ TaxIdle
    /\ ContribIdle
    /\ UsageIdle
    /\ CoerceIdle
    /\ ScanIdle
    /\ IoIdle

\* fetch_categories is called: the two calls of _fetch_schema
FetchSchemas ==
    /\ fpc \in {"new", "returned"}
    /\ fetch_calls < MaxFetchCalls
    /\ \E f \in FetchedFieldsPool, c \in FetchedCategoriesPool :
          fetched' = [fields |-> f, categories |-> c]
    /\ fetch_prev' = self_categories
    /\ fetch_calls' = fetch_calls + 1
    /\ fpc' = "fetched"
    /\ UNCHANGED <<self_categories, fetch_ret, publications, taxVars, contribVars,
                   usageVars, coerceVars, scanVars, ioVars>>

\* raise ValueError("Failed to fetch valid schema files"); except Exception:
\* return {}
FetchInvalid ==
    /\ fpc = "fetched"
    /\ SchemasInvalid(fetched.fields, fetched.categories)
    /\ fetch_ret' = << >>
    /\ fpc' = "returned"
    /\ UNCHANGED <<fetched, self_categories, fetch_prev, fetch_calls, publications,
                   taxVars, contribVars, usageVars, coerceVars, scanVars, ioVars>>

\* _process_categories raises; except Exception: return {}
FetchProcessRaise ==
    /\ fpc = "fetched"
    /\ ~SchemasInvalid(fetched.fields, fetched.categories)
    /\ ProcessCategoriesRaises(fetched.categories.rows, fetched.fields.rows)
    /\ fetch_ret' = << >>
    /\ fpc' = "returned"
    /\ UNCHANGED <<fetched, self_categories, fetch_prev, fetch_calls, publications,
                   taxVars, contribVars, usageVars, coerceVars, scanVars, ioVars>>

\* self.categories = categories; return categories
FetchProcessed ==
    /\ fpc = "fetched"
    /\ ~SchemasInvalid(fetched.fields, fetched.categories)
    /\ ~ProcessCategoriesRaises(fetched.categories.rows, fetched.fields.rows)
    /\ self_categories' = ProcessCategories(fetched.categories.rows, fetched.fields.rows)
    /\ fetch_ret' = ProcessCategories(fetched.categories.rows, fetched.fields.rows)
    /\ fpc' = "returned"
    /\ UNCHANGED <<fetched, fetch_prev, fetch_calls, publications,
                   taxVars, contribVars, usageVars, coerceVars, scanVars, ioVars>>

FetchNext ==
    \/ FetchSchemas
    \/ FetchInvalid
    \/ FetchProcessRaise
    \/ FetchProcessed

SpecFetch == FetchInit /\ [][FetchNext]_vars


(***************************************************************************)
(* UKBiobankFeatureAnalyzer._extract_feature_disease_relationships.        *)
(* A pattern is an alternation of literals, held as the sequence of its    *)
(* alternatives in lower case: the patterns are matched with re.IGNORECASE *)
(* and every match is lower-cased.                                         *)
(***************************************************************************)
\* disease_patterns of _extract_diseases
disease_patterns ==
    << << <<"c", "a", "n", "c", "e", "r">>,
               <<"c", "a", "r", "c", "i", "n", "o", "m", "a">>,
               <<"t", "u", "m", "o", "r">>,
               <<"n", "e", "o", "p", "l", "a", "s", "m">> >>,
       << <<"d", "i", "a", "b", "e", "t", "e", "s">>,
               <<"m", "e", "t", "a", "b", "o", "l", "i", "c", " ", "s", "y", "n", "d", "r", "o", "m", "e">> >>,
       << <<"c", "a", "r", "d", "i", "o", "v", "a", "s", "c", "u", "l", "a", "r">>,
               <<"h", "e", "a", "r", "t", " ", "d", "i", "s", "e", "a", "s", "e">>,
               <<"s", "t", "r", "o", "k", "e">> >>,
       << <<"a", "l", "z", "h", "e", "i", "m", "e", "r">>,
               <<"d", "e", "m", "e", "n", "t", "i", "a">>,
               <<"p", "a", "r", "k", "i", "n", "s", "o", "n">> >>,
       << <<"d", "e", "p", "r", "e", "s", "s", "i", "o", "n">>,
               <<"a", "n", "x", "i", "e", "t", "y">>,
               <<"p", "s", "y", "c", "h", "i", "a", "t", "r", "i", "c">> >>,
       << <<"o", "b", "e", "s", "i", "t", "y">>,
               <<"h", "y", "p", "e", "r", "t", "e", "n", "s", "i", "o", "n">>,
               <<"a", "r", "t", "h", "r", "i", "t", "i", "s">> >> >>

\* self.feature_categories
feature_categories ==
    << [category |-> "genetic",
        patterns |->
         << << <<"s", "n", "p">>,
               <<"v", "a", "r", "i", "a", "n", "t">>,
               <<"a", "l", "l", "e", "l", "e">>,
               <<"g", "e", "n", "e">>,
               <<"l", "o", "c", "u", "s">>,
               <<"g", "e", "n", "o", "m", "i", "c">>,
               <<"g", "e", "n", "e", "t", "i", "c">> >>,
            << <<"g", "w", "a", "s">>,
               <<"p", "o", "l", "y", "g", "e", "n", "i", "c">>,
               <<"h", "e", "r", "i", "t", "a", "b", "i", "l", "i", "t", "y">>,
               <<"q", "t", "l">> >> >>],
       [category |-> "imaging",
        patterns |->
         << << <<"m", "r", "i">>,
               <<"i", "m", "a", "g", "i", "n", "g">>,
               <<"b", "r", "a", "i", "n", " ", "v", "o", "l", "u", "m", "e">>,
               <<"w", "h", "i", "t", "e", " ", "m", "a", "t", "t", "e", "r">>,
               <<"g", "r", "e", "y", " ", "m", "a", "t", "t", "e", "r">> >>,
            << <<"c", "a", "r", "d", "i", "a", "c">>,
               <<"l", "i", "v", "e", "r">>,
               <<"s", "c", "a", "n", "n", "i", "n", "g">>,
               <<"r", "a", "d", "i", "o", "l", "o", "g", "i", "c", "a", "l">>,
               <<"i", "m", "a", "g", "e">> >> >>],
       [category |-> "lifestyle",
        patterns |->
         << << <<"d", "i", "e", "t">>,
               <<"e", "x", "e", "r", "c", "i", "s", "e">>,
               <<"s", "m", "o", "k", "i", "n", "g">>,
               <<"a", "l", "c", "o", "h", "o", "l">>,
               <<"p", "h", "y", "s", "i", "c", "a", "l", " ", "a", "c", "t", "i", "v", "i", "t", "y">> >>,
            << <<"s", "l", "e", "e", "p">>,
               <<"n", "u", "t", "r", "i", "t", "i", "o", "n">>,
               <<"b", "m", "i">>,
               <<"o", "b", "e", "s", "i", "t", "y">>,
               <<"l", "i", "f", "e", "s", "t", "y", "l", "e">> >> >>],
       [category |-> "biomarkers",
        patterns |->
         << << <<"c", "h", "o", "l", "e", "s", "t", "e", "r", "o", "l">>,
               <<"t", "r", "i", "g", "l", "y", "c", "e", "r", "i", "d", "e", "s">>,
               <<"b", "l", "o", "o", "d", " ", "p", "r", "e", "s", "s", "u", "r", "e">>,
               <<"g", "l", "u", "c", "o", "s", "e">> >>,
            << <<"b", "i", "o", "m", "a", "r", "k", "e", "r">>,
               <<"p", "r", "o", "t", "e", "i", "n">>,
               <<"m", "e", "t", "a", "b", "o", "l", "i", "t", "e">>,
               <<"h", "o", "r", "m", "o", "n", "e">> >> >>],
       [category |-> "environmental",
        patterns |->
         << << <<"p", "o", "l", "l", "u", "t", "i", "o", "n">>,
               <<"a", "i", "r", " ", "q", "u", "a", "l", "i", "t", "y">>,
               <<"s", "o", "c", "i", "o", "e", "c", "o", "n", "o", "m", "i", "c">>,
               <<"e", "d", "u", "c", "a", "t", "i", "o", "n">> >>,
            << <<"i", "n", "c", "o", "m", "e">>,
               <<"o", "c", "c", "u", "p", "a", "t", "i", "o", "n">>,
               <<"e", "n", "v", "i", "r", "o", "n", "m", "e", "n", "t", "a", "l">>,
               <<"e", "x", "p", "o", "s", "u", "r", "e">> >> >>],
       [category |-> "clinical",
        patterns |->
         << << <<"m", "e", "d", "i", "c", "a", "t", "i", "o", "n">>,
               <<"t", "r", "e", "a", "t", "m", "e", "n", "t">>,
               <<"d", "i", "a", "g", "n", "o", "s", "i", "s">>,
               <<"s", "y", "m", "p", "t", "o", "m", "s">> >>,
            << <<"c", "o", "m", "o", "r", "b", "i", "d", "i", "t", "y">>,
               <<"d", "i", "s", "e", "a", "s", "e", " ", "h", "i", "s", "t", "o", "r", "y">>,
               <<"c", "l", "i", "n", "i", "c", "a", "l">> >> >>] >>

\* re.finditer(pattern, text, re.IGNORECASE) for an alternation: at each
\* offset the first alternative that matches is the match, and the search
\* goes on behind it
RECURSIVE FindIterFrom(_, _, _)
FindIterFrom(alts, s, i) ==
    IF i >= Len(s) THEN << >>
    ELSE LET hits == { k \in 1..Len(alts) :
                         i + Len(alts[k]) <= Len(s) /\ MatchesAt(alts[k], s, i) }
         IN  IF hits = {} THEN FindIterFrom(alts, s, i + 1)
             ELSE LET first == CHOOSE k \in hits : \A h \in hits : k <= h
                  IN  << alts[first] >> \o FindIterFrom(alts, s, i + Len(alts[first]))

\* list(set(...)) of the matches of a list of patterns, as a set
ExtractMatches(text, patterns) ==
    UNION { { FindIterFrom(patterns[p], Lower(text), 0)[n] :
                n \in 1..Len(FindIterFrom(patterns[p], Lower(text), 0)) } :
            p \in 1..Len(patterns) }

\* _extract_diseases(text)
ExtractDiseases(text) == ExtractMatches(text, disease_patterns)

\* _extract_features(text, patterns)
ExtractFeatures(text, patterns) == ExtractMatches(text, patterns)

SentenceEnd == {".", "!", "?"}

\* [s.strip() for s in re.split(r'[.!?]+', text) if s.strip()]
RECURSIVE SplitFrom(_, _, _)
SplitFrom(s, start, i) ==
    IF i > Len(s)
    THEN IF Strip(SubSeq(s, start, Len(s))) = << >> THEN << >>
         ELSE << Strip(SubSeq(s, start, Len(s))) >>
    ELSE IF s[i] \in SentenceEnd
    THEN (IF Strip(SubSeq(s, start, i - 1)) = << >> THEN << >>
          ELSE << Strip(SubSeq(s, start, i - 1)) >>) \o SplitFrom(s, i + 1, i + 1)
    ELSE SplitFrom(s, start, i + 1)

SplitIntoSentences(text) == SplitFrom(text, 1, 1)

\* a Python list of strings
ListVal(items) == [t |-> "list", s |-> EmptyStr, items |-> items]

\* ' '.join(items)
RECURSIVE JoinSpace(_)
JoinSpace(items) ==
    IF items = << >> THEN EmptyStr
    ELSE IF Len(items) = 1 THEN items[1]
    ELSE items[1] \o <<" ">> \o JoinSpace(Tail(items))

\* paper.get('abstract', '').lower() raises AttributeError on a value that
\* is no string, ' '.join(paper.get('findings', [])) TypeError on None
RelationshipsRaise(p) ==
    \/ p.abstract.t \notin {"absent", "str"}
    \/ p.findings.t \notin {"absent", "list"}

\* text = abstract + ' ' + findings
FeatureText(p) ==
    Lower(PyStr(GetOrEmpty(p.abstract))) \o <<" ">>
        \o Lower(IF p.findings = Absent THEN EmptyStr ELSE JoinSpace(p.findings.items))

\* the relationships of one paper, when nothing raises: what is appended to
\* relationships[disease][category], as a set (the order of the appends
\* follows the iteration order of list(set(...)))
PaperRelationships(p) ==
    LET text      == FeatureText(p)
        sentences == SplitIntoSentences(text)
    IN  UNION { UNION { UNION {
            { [disease |-> d, category |-> feature_categories[c].category,
               feature |-> f, sentence |-> sentences[n],
               paper_title |-> GetOrNone(p.title), year |-> GetOrNone(p.year)] :
              n \in { x \in 1..Len(sentences) :
                        IsSubstr(d, sentences[x]) /\ IsSubstr(f, sentences[x]) } } :
            f \in ExtractFeatures(text, feature_categories[c].patterns) } :
            c \in 1..Len(feature_categories) } :
            d \in ExtractDiseases(text) }

(***************************************************************************)
(* The three scanners of publication text, each run once on one paper.     *)
(***************************************************************************)
Paper(title, abstract, findings, pad, cites) ==
    [title |-> title, abstract |-> abstract, abstract_pad |-> pad,
     year |-> Absent, journal |-> Absent, doi |-> Absent, pubmed_id |-> Absent,
     total_citations |-> cites, findings |-> findings]

PaperTitles == {Absent, NoneVal, Str(EmptyStr),
                Str(<<"d", "i", "a", "b", "e", "t", "e", "s", " ", "1", "-", "0", ".", "0">>)}

PaperAbstracts ==
    {Absent, NoneVal, Str(EmptyStr),
     Str(<<"W", "e", " ", "f", "o", "u", "n", "d", " ", "o", "b", "e", "s", "i", "t", "y", " ", "a", "n", "d", " ", "d", "i", "e", "t", ".", " ", "s", "m", "o", "k", "i", "n", "g", " ", "i", "n", " ", "c", "a", "n", "c", "e", "r", "!">>)}

PaperFindings ==
    {Absent, NoneVal, ListVal(<< >>),
     ListVal(<< <<"d", "i", "e", "t", " ", "a", "n", "d", " ", "c", "a", "n", "c", "e", "r">> >>)}

PaperPool ==
    { Paper(t, a, f, 0, Absent) : t \in PaperTitles, a \in PaperAbstracts, f \in PaperFindings }
    \cup
    { Paper(Str(<<"c", "a", "n", "c", "e", "r">>), Str(<<"1", "-", "0", ".", "0">>),
            Absent, NlpMaxLength, Absent),
      Paper(Str(<<"c", "a", "n", "c", "e", "r">>), Str(<<"1", "-", "0", ".", "0">>),
            Absent, 0, Str(<<"i", "n", "f">>)) }

ScanInit ==
    /\ paper \in PaperPool
    /\ scan_fields = [out |-> "none"]
    /\ scan_diseases = [out |-> "none"]
    /\ scan_relations = [out |-> "none"]
    /\ publications = << >>
    /\ TaxIdle
    /\ ContribIdle
    /\ UsageIdle
    /\ CoerceIdle
    /\ FetchIdle
    /\ IoIdle

\* _analyze_field_usage: text and found_fields of the paper
ScanFieldMentions ==
    /\ scan_fields.out = "none"
    /\ scan_fields' = [out |-> "ok", matches |-> FindAll(PubText(paper).s)]
    /\ UNCHANGED <<paper, scan_diseases, scan_relations, publications, taxVars,
                   contribVars, usageVars, coerceVars, fetchVars, ioVars>>

\* analyze_disease_contributions: the categories the paper is matched to
MatchDiseaseCategories ==
    /\ scan_diseases.out = "none"
    /\ ~PublicationRaises(paper)
    /\ scan_diseases' = [out |-> "ok", matches |-> MatchedCategories(PubText(paper))]
    /\ UNCHANGED <<paper, scan_fields, scan_relations, publications, taxVars,
                   contribVars, usageVars, coerceVars, fetchVars, ioVars>>

MatchDiseaseCategoriesRaise ==
    /\ scan_diseases.out = "none"
    /\ PublicationRaises(paper)
    /\ scan_diseases' = [out |-> "raised"]
    /\ UNCHANGED <<paper, scan_fields, scan_relations, publications, taxVars,
                   contribVars, usageVars, coerceVars, fetchVars, ioVars>>

\* _extract_feature_disease_relationships: the body of its loop
ExtractRelationships ==
    /\ scan_relations.out = "none"
    /\ ~RelationshipsRaise(paper)
    /\ scan_relations' = [out |-> "ok", matches |-> PaperRelationships(paper)]
    /\ UNCHANGED <<paper, scan_fields, scan_diseases, publications, taxVars,
                   contribVars, usageVars, coerceVars, fetchVars, ioVars>>

ExtractRelationshipsRaise ==
    /\ scan_relations.out = "none"
    /\ RelationshipsRaise(paper)
    /\ scan_relations' = [out |-> "raised"]
    /\ UNCHANGED <<paper, scan_fields, scan_diseases, publications, taxVars,
                   contribVars, usageVars, coerceVars, fetchVars, ioVars>>

ScanNext ==
    \/ ScanFieldMentions
    \/ MatchDiseaseCategories
    \/ MatchDiseaseCategoriesRaise
    \/ ExtractRelationships
    \/ ExtractRelationshipsRaise

SpecScan == ScanInit /\ [][ScanNext]_vars


(***************************************************************************)
(* UKBiobankAnalysisPipeline.run_pipeline: the two fetches, then the two  *)
(* analysis stages.  A fetch returns a list or taxonomy, empty when the    *)
(* download failed, or raises when saving what it fetched fails.           *)
(***************************************************************************)
\* `if not publications`, `if not showcase_data`
NotTruthyNever(x) == FALSE

NotTruthy(x) == x = << >>

PipeInit ==
    /\ rpc = "start"
    /\ stage_log = << >>
    /\ pipe_error = "none"
    /\ publications = << >>
    /\ nlp \in BOOLEAN
    /\ showcase_data = << >>
    /\ field_mappings = << >>
    /\ field_usage = << >>
    /\ found = << >>
    /\ upc = "idle"
    /\ ui = 0
    /\ uresults = << >>
    /\ category_coverage = << >>
    /\ coverage_data = << >>
    /\ ContribIdle
    /\ TaxIdle
    /\ CoerceIdle
    /\ FetchIdle
    /\ ScanIdle
    /\ ParserIdle
    /\ CacheIdle

\* Step 1: publications = self.fetch_publications()
PipeFetchPublications ==
    /\ rpc = "start"
    /\ stage_log' = Append(stage_log, "fetch_publications")
    /\ \/ /\ publications' \in SeqUpTo(EnginePubPool, MaxPubs)
          /\ rpc' = "publications"
          /\ pipe_error' = "none"
       \/ /\ publications' = publications
          /\ rpc' = "failed"
          /\ pipe_error' = "fault"
    /\ UNCHANGED <<usageVars, contribVars, taxVars, coerceVars, fetchVars, scanVars,
                   parserVars, cacheVars>>

\* raise ValueError("Failed to fetch publications")
PipeNoPublications ==
    /\ rpc = "publications"
    /\ NotTruthy(publications)
    /\ rpc' = "failed"
    /\ pipe_error' = "no_publications"
    /\ UNCHANGED <<stage_log, publications, usageVars, contribVars, taxVars, coerceVars,
                   fetchVars, scanVars, parserVars, cacheVars>>

\* Step 2: showcase_data = self.fetch_showcase_data()
PipeFetchShowcase ==
    /\ rpc = "publications"
    /\ ~NotTruthy(publications)
    /\ stage_log' = Append(stage_log, "fetch_showcase_data")
    /\ \/ /\ showcase_data' \in EngineShowcasePool \cup {<< >>}
          /\ rpc' = "showcase"
          /\ pipe_error' = "none"
       \/ /\ showcase_data' = showcase_data
          /\ rpc' = "failed"
          /\ pipe_error' = "fault"
    /\ UNCHANGED <<nlp, field_mappings, field_usage, found, upc, ui, uresults,
                   category_coverage, coverage_data, publications, contribVars, taxVars,
                   coerceVars, fetchVars, scanVars, parserVars, cacheVars>>

\* raise ValueError("Failed to fetch showcase data")
PipeNoShowcase ==
    /\ rpc = "showcase"
    /\ NotTruthy(showcase_data)
    /\ rpc' = "failed"
    /\ pipe_error' = "no_showcase"
    /\ UNCHANGED <<stage_log, publications, usageVars, contribVars, taxVars, coerceVars,
                   fetchVars, scanVars, parserVars, cacheVars>>

\* Step 3: self.analyze_disease_contributions(publications); the
\* constructor of DiseaseContributionsAnalyzer raises OSError when the
\* language model is not installed
PipeStartDisease ==
    /\ rpc = "showcase"
    /\ ~NotTruthy(showcase_data)
    /\ stage_log' = Append(stage_log, "analyze_disease_contributions")
    /\ IF nlp
       THEN /\ dpc' = "call"
            /\ rpc' = "disease"
            /\ pipe_error' = "none"
       ELSE /\ dpc' = dpc
            /\ rpc' = "failed"
            /\ pipe_error' = "fault"
    /\ UNCHANGED <<contributions, di, dresults, publications, usageVars, taxVars,
                   coerceVars, fetchVars, scanVars, parserVars, cacheVars>>

\* an exception of the disease analysis leaves run_pipeline
PipeDiseaseFault ==
    /\ rpc = "disease"
    /\ dpc = "raised"
    /\ rpc' = "failed"
    /\ pipe_error' = "fault"
    /\ UNCHANGED <<stage_log, publications, usageVars, contribVars, taxVars, coerceVars,
                   fetchVars, scanVars, parserVars, cacheVars>>

\* Step 4: self.perform_integrated_analysis(publications, showcase_data)
PipeStartIntegrated ==
    /\ rpc = "disease"
    /\ dpc = "done"
    /\ stage_log' = Append(stage_log, "perform_integrated_analysis")
    /\ upc' = "new"
    /\ rpc' = "integrated"
    /\ UNCHANGED <<pipe_error, showcase_data, nlp, field_mappings, field_usage, found, ui,
                   uresults, category_coverage, coverage_data, publications, contribVars,
                   taxVars, coerceVars, fetchVars, scanVars, parserVars, cacheVars>>

\* an exception of the constructor of IntegratedAnalyzer leaves run_pipeline
PipeIntegratedFault ==
    /\ rpc = "integrated"
    /\ upc = "raised"
    /\ rpc' = "failed"
    /\ pipe_error' = "fault"
    /\ UNCHANGED <<stage_log, publications, usageVars, contribVars, taxVars, coerceVars,
                   fetchVars, scanVars, parserVars, cacheVars>>

\* generate_reports() and create_visualizations() of the analyzer, and the
\* return of run_pipeline
PipeReports ==
    /\ rpc = "integrated"
    /\ upc = "ready"
    /\ category_coverage' = CategoryCoverage(field_mappings, field_usage)
    /\ coverage_data' = CoverageData(CategoryCoverage(field_mappings, field_usage))
    /\ field_usage' = UsageAfterLookups(field_usage, field_mappings)
    /\ upc' = "reported"
    /\ rpc' = "done"
    /\ UNCHANGED <<stage_log, pipe_error, showcase_data, nlp, field_mappings,
                   found, ui, uresults, publications, contribVars, taxVars, coerceVars,
                   fetchVars, scanVars, parserVars, cacheVars>>

PipeNext ==
    \/ PipeFetchPublications
    \/ PipeNoPublications
    \/ PipeFetchShowcase
    \/ PipeNoShowcase
    \/ PipeStartDisease
    \/ ContribNext
    \/ PipeDiseaseFault
    \/ PipeStartIntegrated
    \/ Construct
    \/ ScanPublication
    \/ MentionStep
    \/ MentionRaise
    \/ PublicationDone
    \/ UsageReturn
    \/ PipeIntegratedFault
    \/ PipeReports

SpecPipeline == PipeInit /\ [][PipeNext]_vars


(***************************************************************************)
(* UKBPublicationsParser: fetch_publications called again and again, with  *)
(* save_to_json between the calls.  A download is a table of rows; a cell  *)
(* is a string, Absent when the table has no such column or element, None  *)
(* when a tab-separated row is shorter than the header.                    *)
(***************************************************************************)
MaxParserCalls == 2

\* str.split(';')
RECURSIVE SplitSemiFrom(_, _, _)
SplitSemiFrom(s, start, i) ==
    IF i > Len(s) THEN << SubSeq(s, start, Len(s)) >>
    ELSE IF s[i] = ";"
    THEN << SubSeq(s, start, i - 1) >> \o SplitSemiFrom(s, i + 1, i + 1)
    ELSE SplitSemiFrom(s, start, i + 1)

SplitSemi(s) == SplitSemiFrom(s, 1, 1)

\* row.get('keywords', '').split(';') raises AttributeError on a None cell
TabRowRaises(row) == row.keywords = NoneVal

\* the dict _parse_tab_separated makes of a row
TabPublication(row) ==
    [publication_id  |-> GetOrNone(row.ukb_id),
     title           |-> GetOrNone(row.title),
     keywords        |-> SplitSemi(PyStr(GetOrEmpty(row.keywords))),
     year            |-> GetOrNone(row.year),
     abstract        |-> GetOrNone(row.abstract),
     total_citations |-> GetOrNone(row.citations)]

\* _parse_tab_separated(response.text), when no row raises
ParseTabSeparated(rows) == [k \in 1..Len(rows) |-> TabPublication(rows[k])]

\* the dict _parse_xml makes of a publication element: the keywords are
\* stripped, and findtext('keywords', '') is never None
XmlPublication(row) ==
    [publication_id  |-> GetOrNone(row.ukb_id),
     title           |-> GetOrNone(row.title),
     keywords        |-> LET parts == SplitSemi(PyStr(GetOrEmpty(row.keywords)))
                         IN  [k \in 1..Len(parts) |-> Strip(parts[k])],
     year            |-> GetOrNone(row.year),
     abstract        |-> GetOrNone(row.abstract),
     total_citations |-> GetOrNone(row.citations)]

\* _parse_xml(response.text), when ET.fromstring does not raise
ParseXml(rows) == [k \in 1..Len(rows) |-> XmlPublication(rows[k])]

\* the exception that leaves fetch_publications: ParseError of ET.fromstring
\* on a text that is no XML, AttributeError of a short tab-separated row;
\* the except clause catches requests.RequestException only
ParseRaises(resp) ==
    \/ resp.format = "xml" /\ resp.kind = "malformed"
    \/ /\ resp.format = "txt"
       /\ resp.kind = "ok"
       /\ \E k \in 1..Len(resp.rows) : TabRowRaises(resp.rows[k])

\* self.publications after a call whose request failed: the except clause
\* returns [] and assigns nothing
PublicationsAfterFailure(old) == old

DownloadRow(id, title, keywords, abstract) ==
    [ukb_id |-> id, title |-> title, keywords |-> keywords,
     year |-> Str(<<"2", "0", "2", "0">>), abstract |-> abstract, citations |-> Absent]

DownloadRowPool ==
    { DownloadRow(Str(<<"1">>), Str(<<"t", "1">>), Str(<<"a", ";", " ", "b">>),
                  Str(<<"s", "e", "e", " ", "1", "-", "0", ".", "0">>)),
      DownloadRow(Str(<<"2">>), Str(<<"t", "2">>), Absent, Absent),
      DownloadRow(Str(<<"3">>), Str(<<"t", "3">>), NoneVal, NoneVal) }

\* what session.get and raise_for_status give: a RequestException, a body
\* that is no XML document, or a table (an XML element has no None cell)
ResponsePool ==
    { [kind |-> "error", format |-> f, rows |-> << >>] : f \in {"txt", "xml"} }
    \cup { [kind |-> "malformed", format |-> "xml", rows |-> << >>] }
    \cup { [kind |-> "ok", format |-> "txt", rows |-> r] :
             r \in SeqUpTo(DownloadRowPool, 2) }
    \cup { [kind |-> "ok", format |-> "xml", rows |-> r] :
             r \in SeqUpTo({ row \in DownloadRowPool : row.keywords # NoneVal }, 2) }

\* __init__
ParserInit ==
    /\ response = [kind |-> "none"]
    /\ self_publications = << >>
    /\ pub_ret = << >>
    /\ pub_pc = "ready"
    /\ pub_calls = 0
    /\ saved_json = "nothing"
    /\ publications = << >>
    /\ TaxIdle
    /\ ContribIdle
    /\ UsageIdle
    /\ CoerceIdle
    /\ FetchIdle
    /\ ScanIdle
    /\ PipeIdle
    /\ CacheIdle

\* fetch_publications(format_type): the request succeeds and the body parses
FetchPublicationsParsed ==
    /\ pub_pc \in {"ready", "returned", "saved"}
    /\ pub_calls < MaxParserCalls
    /\ \E resp \in ResponsePool :
          /\ resp.kind = "ok"
          /\ ~ParseRaises(resp)
          /\ response' = resp
          /\ self_publications' = IF resp.format = "txt" THEN ParseTabSeparated(resp.rows)
                                  ELSE ParseXml(resp.rows)
          /\ pub_ret' = IF resp.format = "txt" THEN ParseTabSeparated(resp.rows)
                        ELSE ParseXml(resp.rows)
    /\ pub_calls' = pub_calls + 1
    /\ pub_pc' = "returned"
    /\ UNCHANGED <<saved_json, publications, taxVars, contribVars, usageVars, coerceVars,
                   fetchVars, scanVars, pipeVars, cacheVars>>

\* fetch_publications(format_type): the request raises RequestException
FetchPublicationsFailed ==
    /\ pub_pc \in {"ready", "returned", "saved"}
    /\ pub_calls < MaxParserCalls
    /\ \E resp \in ResponsePool :
          /\ resp.kind = "error"
          /\ response' = resp
    /\ self_publications' = PublicationsAfterFailure(self_publications)
    /\ pub_ret' = << >>
    /\ pub_calls' = pub_calls + 1
    /\ pub_pc' = "returned"
    /\ UNCHANGED <<saved_json, publications, taxVars, contribVars, usageVars, coerceVars,
                   fetchVars, scanVars, pipeVars, cacheVars>>

\* fetch_publications(format_type): the parser raises, the call ends in the
\* exception
FetchPublicationsRaise ==
    /\ pub_pc \in {"ready", "returned", "saved"}
    /\ pub_calls < MaxParserCalls
    /\ \E resp \in ResponsePool :
          /\ ParseRaises(resp)
          /\ response' = resp
    /\ pub_calls' = pub_calls + 1
    /\ pub_pc' = "raised"
    /\ UNCHANGED <<self_publications, pub_ret, saved_json, publications, taxVars,
                   contribVars, usageVars, coerceVars, fetchVars, scanVars, pipeVars,
                   cacheVars>>

\* save_to_json(): pd.DataFrame(self.publications).to_json(...)
SaveToJson ==
    /\ pub_pc = "returned"
    /\ saved_json' = self_publications
    /\ pub_pc' = "saved"
    /\ UNCHANGED <<response, self_publications, pub_ret, pub_calls, publications, taxVars,
                   contribVars, usageVars, coerceVars, fetchVars, scanVars, pipeVars,
                   cacheVars>>

ParserNext ==
    \/ FetchPublicationsParsed
    \/ FetchPublicationsFailed
    \/ FetchPublicationsRaise
    \/ SaveToJson

SpecParser == ParserInit /\ [][ParserNext]_vars


(***************************************************************************)
(* UKBiobankPaperParser.search_papers, called again and again on one       *)
(* parser.  A paper is a dict of strings and integers under string keys,   *)
(* which json.dump and json.load give back as it was; the cache file is    *)
(* held as the list it stores.                                             *)
(***************************************************************************)
MaxSearchCalls == 2

\* len(self.search_terms)
NumSearchTerms == 4

\* _get_sample_data()
SampleData ==
    << [title |-> "Genetic associations with risk of COVID-19 severity in UK Biobank",
        year |-> 2023, citations |-> 150],
       [title |-> "Brain imaging and cognitive decline in UK Biobank",
        year |-> 2024, citations |-> 75] >>

\* the papers the search API may give
FetchablePapers ==
    { [title |-> "p1", year |-> 2020, citations |-> 1],
      [title |-> "p2", year |-> 2021, citations |-> 0] }

\* what the calls of next(search_query) will do, one after the other: give
\* a paper, or raise an exception (NextRaises); at the end of the sequence
\* next raises StopIteration
NextRaises == [title |-> "error", year |-> 0, citations |-> 0]

QueryPool ==
    { << >>,
      << [title |-> "p1", year |-> 2020, citations |-> 1] >>,
      << NextRaises, [title |-> "p2", year |-> 2021, citations |-> 0] >>,
      << [title |-> "p1", year |-> 2020, citations |-> 1],
         [title |-> "p2", year |-> 2021, citations |-> 0],
         [title |-> "p1", year |-> 2020, citations |-> 1] >> }

MaxResultsPool == {0, 3, 4, 8}

\* max_results // len(self.search_terms)
PerTerm(n) == n \div NumSearchTerms

\* the cache file after a search that also stores the fallback data
CacheAfterSearchWithFallback(cache, got, uc) ==
    IF uc THEN [exists |-> TRUE, content |-> IF got = << >> THEN SampleData ELSE got]
    ELSE cache

\* if papers and self.use_cache: json.dump(papers, f)
CacheAfterSearch(cache, got, uc) ==
    IF got # << >> /\ uc THEN [exists |-> TRUE, content |-> got] ELSE cache

\* a parser, and the cache file an earlier run may have left
CacheInit ==
    /\ use_cache \in BOOLEAN
    /\ cache_file \in { [exists |-> FALSE, content |-> << >>],
                        [exists |-> TRUE,
                         content |-> << [title |-> "p2", year |-> 2021, citations |-> 0] >>] }
    /\ max_results = 0
    /\ papers = << >>
    /\ term_idx = 0
    /\ tries = 0
    /\ query = << >>
    /\ spc = "ready"
    /\ searched = 0
    /\ search_ret = << >>
    /\ search_calls = 0
    /\ publications = << >>
    /\ TaxIdle
    /\ ContribIdle
    /\ UsageIdle
    /\ CoerceIdle
    /\ FetchIdle
    /\ ScanIdle
    /\ PipeIdle
    /\ ParserIdle

\* if self.use_cache and self.cache_file.exists(): return json.load(f)
SearchFromCache ==
    /\ spc \in {"ready", "returned", "returned_cache"}
    /\ search_calls < MaxSearchCalls
    /\ use_cache /\ cache_file.exists
    /\ max_results' \in MaxResultsPool
    /\ papers' = << >>
    /\ searched' = 0
    /\ search_ret' = cache_file.content
    /\ search_calls' = search_calls + 1
    /\ spc' = "returned_cache"
    /\ UNCHANGED <<use_cache, cache_file, term_idx, tries, query, publications, taxVars,
                   contribVars, usageVars, coerceVars, fetchVars, scanVars, pipeVars,
                   parserVars>>

\* papers = [] and the entry of the loop over self.search_terms
SearchBegin ==
    /\ spc \in {"ready", "returned", "returned_cache"}
    /\ search_calls < MaxSearchCalls
    /\ ~(use_cache /\ cache_file.exists)
    /\ max_results' \in MaxResultsPool
    /\ papers' = << >>
    /\ searched' = 0
    /\ term_idx' = 1
    /\ tries' = 0
    /\ query' = << >>
    /\ search_calls' = search_calls + 1
    /\ spc' = "term"
    /\ UNCHANGED <<use_cache, cache_file, search_ret, publications, taxVars, contribVars,
                   usageVars, coerceVars, fetchVars, scanVars, pipeVars, parserVars>>

\* search_query = scholarly.search_pubs(term)
SearchTerm ==
    /\ spc = "term"
    /\ term_idx <= NumSearchTerms
    /\ query' \in QueryPool
    /\ tries' = 0
    /\ searched' = searched + 1
    /\ spc' = "next"
    /\ UNCHANGED <<use_cache, cache_file, max_results, papers, term_idx, search_ret,
                   search_calls, publications, taxVars, contribVars, usageVars, coerceVars,
                   fetchVars, scanVars, pipeVars, parserVars>>

\* scholarly.search_pubs(term) raises: the outer except logs and continues
SearchTermRaise ==
    /\ spc = "term"
    /\ term_idx <= NumSearchTerms
    /\ term_idx' = term_idx + 1
    /\ searched' = searched + 1
    /\ UNCHANGED <<use_cache, cache_file, max_results, papers, tries, query, spc,
                   search_ret, search_calls, publications, taxVars, contribVars, usageVars,
                   coerceVars, fetchVars, scanVars, pipeVars, parserVars>>

\* paper = next(search_query); papers.append(paper)
SearchNextPaper ==
    /\ spc = "next"
    /\ tries < PerTerm(max_results)
    /\ query # << >>
    /\ Head(query) # NextRaises
    /\ papers' = Append(papers, Head(query))
    /\ query' = Tail(query)
    /\ tries' = tries + 1
    /\ searched' = searched + 1
    /\ UNCHANGED <<use_cache, cache_file, max_results, term_idx, spc, search_ret,
                   search_calls, publications, taxVars, contribVars, usageVars, coerceVars,
                   fetchVars, scanVars, pipeVars, parserVars>>

\* next(search_query) raises: the inner except logs and continues
SearchNextError ==
    /\ spc = "next"
    /\ tries < PerTerm(max_results)
    /\ query # << >>
    /\ Head(query) = NextRaises
    /\ query' = Tail(query)
    /\ tries' = tries + 1
    /\ searched' = searched + 1
    /\ UNCHANGED <<use_cache, cache_file, max_results, papers, term_idx, spc, search_ret,
                   search_calls, publications, taxVars, contribVars, usageVars, coerceVars,
                   fetchVars, scanVars, pipeVars, parserVars>>

\* the inner loop ends: its range is used up, or next raised StopIteration
SearchTermDone ==
    /\ spc = "next"
    /\ tries >= PerTerm(max_results) \/ query = << >>
    /\ searched' = IF tries < PerTerm(max_results) THEN searched + 1 ELSE searched
    /\ term_idx' = term_idx + 1
    /\ spc' = "term"
    /\ UNCHANGED <<use_cache, cache_file, max_results, papers, tries, query, search_ret,
                   search_calls, publications, taxVars, contribVars, usageVars, coerceVars,
                   fetchVars, scanVars, pipeVars, parserVars>>

\* the cache write, the fallback to the sample data and the return
SearchFinish ==
    /\ spc = "term"
    /\ term_idx > NumSearchTerms
    /\ cache_file' = CacheAfterSearch(cache_file, papers, use_cache)
    /\ search_ret' = IF papers = << >> THEN SampleData ELSE papers
    /\ spc' = "returned"
    /\ UNCHANGED <<use_cache, max_results, papers, term_idx, tries, query, searched,
                   search_calls, publications, taxVars, contribVars, usageVars, coerceVars,
                   fetchVars, scanVars, pipeVars, parserVars>>

CacheNext ==
    \/ SearchFromCache
    \/ SearchBegin
    \/ SearchTerm
    \/ SearchTermRaise
    \/ SearchNextPaper
    \/ SearchNextError
    \/ SearchTermDone
    \/ SearchFinish

SpecCache == CacheInit /\ [][CacheNext]_vars


(***************************************************************************)
(* Properties.                                                             *)
(***************************************************************************)
\* the positions <<category, subcategory, k>> of the tree that hold a
\* field with identifier fid
Placements(cats, fid) ==
    { p \in UNION { UNION { { <<ci, si, k>> : k \in 1..Len(cats[ci].subcategories[si].fields) }
                            : si \in 1..Len(cats[ci].subcategories) }
                    : ci \in 1..Len(cats) } :
        cats[p[1]].subcategories[p[2]].fields[p[3]].field_id = fid }

RowsWithId(fid) == { j \in 1..Len(fields_df) : PyStr(fields_df[j].field_id) = fid }

UniqueRow(j) ==
    /\ PyStr(fields_df[j].field_id) # EmptyStr
    /\ Cardinality(RowsWithId(PyStr(fields_df[j].field_id))) = 1

\* C1: when _process_categories returns, every field row whose field id is
\* non-empty and unique in the fields table stands in the fields list of
\* exactly one subcategory of the tree (uncategorized/default included),
\* and what stands there is the field_info of that row.
C1_FieldInExactlyOneSubcategory ==
    tpc = "done" =>
        \A j \in 1..Len(fields_df) :
            UniqueRow(j) =>
                LET ps == Placements(categories, PyStr(fields_df[j].field_id))
                IN  /\ Cardinality(ps) = 1
                    /\ \A p \in ps :
                          categories[p[1]].subcategories[p[2]].fields[p[3]]
                              = FieldInfo(fields_df[j])

\* C1 witness: a returned tree of two uniquely identified fields, one whose
\* category reference matches the names of two subcategories and one that
\* fell back to uncategorized/default.
C1_Witness ==
    /\ tpc = "done"
    /\ Len(fields_df) = 2
    /\ \A j \in 1..Len(fields_df) : UniqueRow(j)
    /\ \E j \in 1..Len(fields_df) :
          Len(AllMatches(categories, FieldCatRef(fields_df[j]))) >= 2
    /\ \E j \in 1..Len(fields_df) :
          \E p \in Placements(categories, PyStr(fields_df[j].field_id)) :
              /\ categories[p[1]].id = UncategorizedId
              /\ categories[p[1]].subcategories[p[2]].id = DefaultId

\* C2: at every point of the aggregation, every UsageRecord has at least
\* as many mentions as it has papers.
C2_MentionsAtLeastPapers ==
    \A k \in 1..Len(field_usage) :
        field_usage[k].mentions >= Cardinality(field_usage[k].papers)

\* C2 witness: a record with two papers and more mentions than papers.
C2_Witness ==
    \E k \in 1..Len(field_usage) :
        /\ Cardinality(field_usage[k].papers) = 2
        /\ field_usage[k].mentions > 2

KeySet(d) == { d[k].id : k \in 1..Len(d) }

\* C3: at every point of the aggregation the keys of field_usage are keys
\* of field_mappings: a field id found in a text and absent from the
\* taxonomy lookup produces no UsageRecord.
C3_UsageKeysAreTaxonomyKeys ==
    upc # "idle" => KeySet(field_usage) \subseteq KeySet(field_mappings)

\* C3 witness: a publication whose text holds a field id that is no key of
\* field_mappings has been aggregated, and so has a taxonomy field.
C3_Witness ==
    /\ upc \in {"scan", "mentions", "ready"}
    /\ field_usage # << >>
    /\ \E i \in 1..Len(publications) :
          /\ i < ui
          /\ \E n \in 1..Len(FindAll(PubText(publications[i]).s)) :
                ~IsMappedField(field_mappings, FindAll(PubText(publications[i]).s)[n])

\* C4: every entry of analyze_category_coverage has
\* 0 <= used_fields <= total_fields, and every row of the coverage table
\* has a percentage within [0, 100] when total_fields > 0 and a percentage
\* of exactly 0 when total_fields = 0.
C4_CoverageWithinBounds ==
    /\ \A k \in 1..Len(category_coverage) :
          /\ 0 <= category_coverage[k].used_fields
          /\ category_coverage[k].used_fields <= category_coverage[k].total_fields
    /\ \A k \in 1..Len(coverage_data) :
          /\ 0 <= coverage_data[k].used_fields
          /\ coverage_data[k].used_fields <= coverage_data[k].total_fields
          /\ coverage_data[k].total_fields > 0 =>
                /\ FGe(coverage_data[k].usage_percentage, Fin(0))
                /\ FGe(Fin(100 * ScoreUnit), coverage_data[k].usage_percentage)
          /\ coverage_data[k].total_fields = 0 =>
                coverage_data[k].usage_percentage = Fin(0)

\* C4 witness: a coverage table with a fully used category and a category
\* used in part, one of its fields mentioned more than once.
C4_Witness ==
    /\ \E k \in 1..Len(coverage_data) :
          /\ coverage_data[k].used_fields > 0
          /\ coverage_data[k].used_fields < coverage_data[k].total_fields
    /\ \E k \in 1..Len(coverage_data) :
          coverage_data[k].usage_percentage = Fin(100 * ScoreUnit)
    /\ \E k \in 1..Len(category_coverage) :
          category_coverage[k].total_mentions > category_coverage[k].used_fields

\* the contributions of a returned dict
ItemsOf(result) ==
    UNION { { result[k].items[n] : n \in 1..Len(result[k].items) } : k \in 1..Len(result) }

\* every contribution made so far
AllContributions ==
    ItemsOf(contributions) \cup UNION { ItemsOf(dresults[r]) : r \in 1..Len(dresults) }

C6_NoCitationTermWithoutCitations ==
    \A c \in AllContributions :
        c.citations <= 0 =>
            /\ c.impact_score = PhraseScore(PubText(publications[c.src]))
            /\ FGe(c.impact_score, Fin(0))

\* the phrases of the vocabulary that occur in the lower-cased text
PhrasesPresent(text) ==
    { i \in 1..Len(impact_phrases) : Occurrences(impact_phrases[i], Lower(text.s)) >= 1 }

\* the second term of the score when `count` phrases are counted
PhraseTerm(count) == (count * ScoreUnit) \div Len(impact_phrases)

\* C7 as the specification states it: the second term of the score is the
\* number of occurrences of impact phrases, repeats counted, over the size
\* of the vocabulary.
C7_PhraseTermCountsRepeats ==
    \A c \in AllContributions :
        c.impact_score =
            FAdd(CitationScore(c.citations),
                 Fin(PhraseTerm(ImpactCountRepeats(PubText(publications[c.src])))))

\* C7 amended: the second term of the score is the number of phrases of the
\* vocabulary that occur at least once in the lower-cased text over the size
\* of the vocabulary, a repeated phrase counting once; it is within [0, 1].
C7_PhraseTermCountsDistinct ==
    \A c \in AllContributions :
        LET term == PhraseTerm(Cardinality(PhrasesPresent(PubText(publications[c.src]))))
        IN  /\ c.impact_score = FAdd(CitationScore(c.citations), Fin(term))
            /\ 0 <= term
            /\ term <= ScoreUnit

\* C7 witness: a contribution of a text that repeats an impact phrase.
C7_Witness ==
    \E c \in AllContributions :
        /\ Cardinality(PhrasesPresent(PubText(publications[c.src]))) >= 1
        /\ ImpactCountRepeats(PubText(publications[c.src]))
               > Cardinality(PhrasesPresent(PubText(publications[c.src])))

\* C8: in every returned dict every category's list is ordered by
\* impact_score non-increasing, and contributions of equal score stand in
\* the order of their publications in the corpus.
C8_RankedDescendingAndStable ==
    \A r \in 1..Len(dresults) :
        \A k \in 1..Len(dresults[r]) :
            LET items == dresults[r][k].items
            IN  \A i, j \in 1..Len(items) :
                    i < j =>
                        /\ FGe(items[i].impact_score, items[j].impact_score)
                        /\ items[i].impact_score = items[j].impact_score
                               => items[i].src < items[j].src

\* C9: no publication aborts the batch: analyze_disease_contributions is
\* never left by an exception, and when it returns every publication of the
\* corpus has been processed.
C9_BatchNeverAborts ==
    /\ dpc # "raised"
    /\ dpc = "done" => di = Len(publications) + 1

\* C10: the coercion of every raw total_citations value ends with the parsed
\* integer when the value is a finite number and with 0 otherwise, and no
\* exception leaves it.
C10_CoercionNeverFaults ==
    /\ cpc # "raised"
    /\ cpc = "done" =>
          coerced.v =
              IF raw_citations.t \in {"absent", "none"} THEN 0
              ELSE IF ParseFloatToInt(raw_citations.s).out = "ok"
                   THEN ParseFloatToInt(raw_citations.s).v
                   ELSE 0

\* the contributions of publication idx under `category` in a returned dict
ContributionsOf(result, category, idx) ==
    IF IndexOf(result, category) = 0 THEN {}
    ELSE { n \in 1..Len(result[IndexOf(result, category)].items) :
             result[IndexOf(result, category)].items[n].src = idx }

\* the text of the publication contains a keyword of the category
DiscussesCategory(pub, c) == TextContainsKeywords(Lower(PubText(pub).s), c.keywords)

\* C11 as the specification states it: every returned dict holds exactly one
\* Contribution of publication p under category c when the text of p
\* contains a keyword of c, and none otherwise.
C11_OneContributionPerKeywordCategory ==
    \A r \in 1..Len(dresults) :
        \A i \in 1..Len(publications) :
            \A k \in 1..Len(disease_categories) :
                Cardinality(ContributionsOf(dresults[r], disease_categories[k].category, i))
                    = IF DiscussesCategory(publications[i], disease_categories[k])
                      THEN 1 ELSE 0

\* C11 amended: every returned dict holds exactly one Contribution of
\* publication p under category c when the text of p contains a keyword of c
\* and _extract_key_findings finds at least one finding sentence in it, and
\* none otherwise; a publication that discusses k categories yields k
\* Contributions if it has a finding sentence and none if it has not.
C11_OneContributionPerCategoryWithFindings ==
    \A r \in 1..Len(dresults) :
        \A i \in 1..Len(publications) :
            \A k \in 1..Len(disease_categories) :
                Cardinality(ContributionsOf(dresults[r], disease_categories[k].category, i))
                    = IF /\ DiscussesCategory(publications[i], disease_categories[k])
                         /\ ExtractKeyFindings(PubText(publications[i])) # << >>
                      THEN 1 ELSE 0

\* C11 witness: a returned dict with a publication under two categories, a
\* publication that names a keyword and has no finding sentence, and a
\* publication with a finding sentence and no keyword.
C11_Witness ==
    /\ dresults # << >>
    /\ \E i \in 1..Len(publications) :
          Cardinality({ k \in 1..Len(disease_categories) :
                          ContributionsOf(dresults[1], disease_categories[k].category, i) # {} }) = 2
    /\ \E i \in 1..Len(publications) :
          /\ \E k \in 1..Len(disease_categories) :
                DiscussesCategory(publications[i], disease_categories[k])
          /\ ExtractKeyFindings(PubText(publications[i])) = << >>
    /\ \E i \in 1..Len(publications) :
          /\ \A k \in 1..Len(disease_categories) :
                ~DiscussesCategory(publications[i], disease_categories[k])
          /\ ExtractKeyFindings(PubText(publications[i])) # << >>

\* the field id is among the matches of the field pattern in the text
Mentions(pub, field_id) ==
    \E n \in 1..Len(FindAll(PubText(pub).s)) : FindAll(PubText(pub).s)[n] = field_id

\* C12: when the aggregation has returned, the paper set of every
\* UsageRecord has as many members as there are distinct publications in the
\* corpus whose text mentions the field: one for a publication however often
\* it mentions the field, two for two different publications.
C12_PapersCountDistinctPublications ==
    upc = "ready" =>
        \A k \in 1..Len(field_usage) :
            Cardinality(field_usage[k].papers)
                = Cardinality({ publications[i] : i \in
                      { j \in 1..Len(publications) :
                          Mentions(publications[j], field_usage[k].id) } })

\* the publication has a year: the key is there and its value is not None
YearPresent(pub) == pub.year # Absent /\ pub.year # NoneVal

\* C13: when the aggregation has returned, the years set of every
\* UsageRecord holds exactly the years of the publications that mention the
\* field and have a year; a mentioning publication without a year adds
\* nothing to it.
C13_YearsOnlyWhenPresent ==
    upc = "ready" =>
        \A k \in 1..Len(field_usage) :
            field_usage[k].years
                = { publications[i].year : i \in
                      { j \in 1..Len(publications) :
                          /\ Mentions(publications[j], field_usage[k].id)
                          /\ YearPresent(publications[j]) } }

\* C14: at every point of the aggregation the contexts list of every
\* UsageRecord holds no sentence twice and holds at most five sentences.
C14_ContextsDistinctAndBounded ==
    \A k \in 1..Len(field_usage) :
        LET contexts == field_usage[k].contexts
        IN  /\ Len(contexts) <= 5
            /\ \A i, j \in 1..Len(contexts) : i # j => contexts[i] # contexts[j]

\* the category rows the first loop has been through
RowsDone == IF tpc = "cats" THEN 1..(ti - 1) ELSE 1..Len(categories_df)

\* a row with an id of its own and no parent: the parent_id is empty,
\* absent or the 'nan' of a missing cell
IsRootRow(row) ==
    /\ PyStr(row.cat_id) # EmptyStr
    /\ row.parent_id \in {Str(EmptyStr), Absent, NonStr, Str(<<"n", "a", "n">>)}

IdUsedOnce(j) ==
    \A i \in 1..Len(categories_df) :
        PyStr(categories_df[i].cat_id) = PyStr(categories_df[j].cat_id) => i = j

IsSubcatKey(cats, id) ==
    \E ci \in 1..Len(cats) : IndexOf(cats[ci].subcategories, id) # 0

CitationsOf(pub) == CoerceCitations(pub.total_citations).v

\* C16: in every returned dict, of two publications that both name a keyword
\* of a category, the first with strictly more citations (both counts
\* non-negative) and strictly more impact phrases than the second, both
\* stand in the list of the category and the first stands before the second.
C16_MoreCitedAndPhrasedRanksFirst ==
    \A r \in 1..Len(dresults) :
        \A k \in 1..Len(disease_categories) :
            \A i, j \in 1..Len(publications) :
                ( /\ DiscussesCategory(publications[i], disease_categories[k])
                  /\ DiscussesCategory(publications[j], disease_categories[k])
                  /\ CitationsOf(publications[j]) >= 0
                  /\ CitationsOf(publications[i]) > CitationsOf(publications[j])
                  /\ ImpactCount(PubText(publications[i])) > ImpactCount(PubText(publications[j])) )
                =>
                LET pi == ContributionsOf(dresults[r], disease_categories[k].category, i)
                    pj == ContributionsOf(dresults[r], disease_categories[k].category, j)
                IN  /\ pi # {}
                    /\ pj # {}
                    /\ \A a \in pi : \A b \in pj : a < b

\* how many of the matches of the field pattern in the text are field_id
MatchCount(pub, field_id) ==
    Cardinality({ n \in 1..Len(FindAll(PubText(pub).s)) :
                    FindAll(PubText(pub).s)[n] = field_id })

RECURSIVE TotalMatches(_, _)
TotalMatches(pubs, field_id) ==
    IF pubs = << >> THEN 0
    ELSE MatchCount(Head(pubs), field_id) + TotalMatches(Tail(pubs), field_id)

\* the mention count of a field: that of its UsageRecord, 0 without one
MentionsOf(usage, field_id) ==
    IF IndexOf(usage, field_id) = 0 THEN 0 ELSE usage[IndexOf(usage, field_id)].mentions

\* C17: when the aggregation has returned, the mention count of every
\* taxonomy field is the number of matches of the field pattern, in the
\* title+abstract texts of all publications, that are the identifier of the
\* field, every match counted; a field has a UsageRecord only if it has a
\* match.
C17_MentionsCountEveryOccurrence ==
    upc = "ready" =>
        /\ \A k \in 1..Len(field_mappings) :
              MentionsOf(field_usage, field_mappings[k].id)
                  = TotalMatches(publications, field_mappings[k].id)
        /\ \A k \in 1..Len(field_usage) : field_usage[k].mentions >= 1

\* C17 witness: the aggregation has returned with a field that one
\* publication names once (mention count 1, paper count 1), and with a field
\* that one publication names twice.
C17_Witness ==
    /\ upc = "ready"
    /\ \E k \in 1..Len(field_usage) :
          /\ field_usage[k].mentions = 1
          /\ Cardinality(field_usage[k].papers) = 1
          /\ TotalMatches(publications, field_usage[k].id) = 1
    /\ \E k \in 1..Len(field_usage) :
          \E i \in 1..Len(publications) :
              /\ MatchCount(publications[i], field_usage[k].id) = 2
              /\ field_usage[k].mentions >= 2

\* a table that is None or has no row
TableMissing(t) == t.kind = "none" \/ Len(t.rows) = 0

\* C18: a call of fetch_categories whose categories table or fields table is
\* None or empty, or whose _process_categories raises, returns the empty
\* taxonomy and leaves self.categories as it was when the call began; no
\* call ends in an exception.
C18_MissingTablesGiveEmptyTaxonomy ==
    /\ fpc \in {"idle", "new", "fetched", "returned"}
    /\ ( /\ fpc = "returned"
         /\ \/ TableMissing(fetched.fields)
            \/ TableMissing(fetched.categories)
            \/ ProcessCategoriesRaises(fetched.categories.rows, fetched.fields.rows) )
       => /\ fetch_ret = << >>
          /\ self_categories = fetch_prev

\* C18 witness: a second call with an empty fields table has returned {}
\* on a scraper whose self.categories holds the taxonomy of the first call.
C18_Witness ==
    /\ fpc = "returned"
    /\ fetch_calls = 2
    /\ fetched.fields = Df(<< >>)
    /\ fetched.categories.kind = "df"
    /\ fetched.categories.rows # << >>
    /\ fetch_ret = << >>
    /\ self_categories # << >>

\* a title or abstract that is empty, absent or None
NoText(v) == v \in {Absent, NoneVal, Str(EmptyStr)}

\* the scanner has not raised, and what it matched is empty
ScannedNothing(outcome, empty) ==
    /\ outcome.out # "raised"
    /\ outcome.out = "ok" => outcome.matches = empty

\* C19: on a paper whose title and abstract are empty, absent or None (and
\* that has no findings) none of the three scanners raises and each yields
\* an empty match set.
C19_EmptyTextScansToNothing ==
    ( /\ NoText(paper.title)
      /\ NoText(paper.abstract)
      /\ paper.findings \in {Absent, ListVal(<< >>)} )
    => /\ ScannedNothing(scan_fields, << >>)
       /\ ScannedNothing(scan_diseases, << >>)
       /\ ScannedNothing(scan_relations, {})


\* C20: constructing the analyzer never fails because segmentation failed,
\* and when the segmenter could not be loaded (nlp is None) every field with
\* at least one mention still has at least one context sentence, the whole
\* text of the publication.
C20_SegmentationFallbackKeepsContext ==
    /\ upc # "raised"
    /\ (upc = "ready" /\ ~nlp) =>
          \A k \in 1..Len(field_usage) :
              field_usage[k].mentions >= 1 => field_usage[k].contexts # << >>


\* the stages of run_pipeline, in the order of the claim
StageOrder == << "fetch_publications", "fetch_showcase_data",
                 "analyze_disease_contributions", "perform_integrated_analysis" >>

\* C21: the stages run_pipeline has entered are a prefix of fetch
\* publications, fetch showcase taxonomy, disease-contribution analysis,
\* integrated analysis; an analysis stage is entered, and an analyzer takes
\* a step, only after both fetches returned a non-empty result; when a fetch
\* returned empty run_pipeline raises its 'could not run' error with no
\* later stage entered and no analyzer started.
C21_StagesInOrderBehindBothFetches ==
    /\ Len(stage_log) <= Len(StageOrder)
    /\ \A k \in 1..Len(stage_log) : stage_log[k] = StageOrder[k]
    /\ ( \/ Len(stage_log) >= 3
         \/ dpc # "idle"
         \/ upc # "idle" )
       => (publications # << >> /\ showcase_data # << >>)
    /\ (rpc \notin {"start", "failed"} /\ Len(stage_log) = 1 /\ publications = << >>)
       => ENABLED PipeNoPublications
    /\ (rpc \in {"showcase", "disease", "integrated", "done"}) => publications # << >>
    /\ (rpc \in {"disease", "integrated", "done"}) => showcase_data # << >>
    /\ pipe_error = "no_publications"
       => /\ rpc = "failed"
          /\ publications = << >>
          /\ stage_log = SubSeq(StageOrder, 1, 1)
          /\ dpc = "idle" /\ upc = "idle"
    /\ pipe_error = "no_showcase"
       => /\ rpc = "failed"
          /\ showcase_data = << >>
          /\ stage_log = SubSeq(StageOrder, 1, 2)
          /\ dpc = "idle" /\ upc = "idle"
    /\ upc # "idle" => dpc = "done"

\* C21 witness: a run on two publications or more that went through all
\* four stages, in order, and returned.
C21_Witness ==
    /\ rpc = "done"
    /\ stage_log = StageOrder
    /\ Len(publications) >= 2
    /\ category_coverage # << >>


\* C22: in the returned tree every category row with an id and a parent is
\* a subcategory under its parent id, and the top-level keys are exactly
\* the ids of the rows without a parent, 'uncategorized' aside.
C22_ParentedRowsAreNestedOnly ==
    tpc = "done" =>
        /\ \A j \in 1..Len(categories_df) :
              ( /\ PyStr(categories_df[j].cat_id) # EmptyStr
                /\ ~IsRootRow(categories_df[j]) )
              => LET parent == PyStr(categories_df[j].parent_id)
                 IN  /\ IndexOf(categories, parent) # 0
                     /\ IndexOf(categories[IndexOf(categories, parent)].subcategories,
                                PyStr(categories_df[j].cat_id)) # 0
        /\ { categories[k].id : k \in 1..Len(categories) } \ {UncategorizedId}
              = { PyStr(categories_df[j].cat_id) :
                    j \in { i \in 1..Len(categories_df) : IsRootRow(categories_df[i]) } }


\* a sequence without the later repeats of its elements
RECURSIVE Dedupe(_)
Dedupe(s) ==
    IF s = << >> THEN << >>
    ELSE LET front == Dedupe(SubSeq(s, 1, Len(s) - 1))
         IN  IF \E k \in 1..Len(front) : front[k] = s[Len(s)] THEN front
             ELSE Append(front, s[Len(s)])

\* the category rows that have an id, in row order
RowsWithCatId == SelectSeq(categories_df, LAMBDA row : PyStr(row.cat_id) # EmptyStr)

\* the id of the category a row refers to: its parent, or itself for a root
CategoryOfRow(row) == IF IsRootRow(row) THEN PyStr(row.cat_id) ELSE PyStr(row.parent_id)

\* the subcategories in encounter order, read off the categories table:
\* categories in the order their ids are first referred to by a row,
\* subcategories of a category in the order of their first row
EncounterOrder ==
    LET catIds == Dedupe([k \in 1..Len(RowsWithCatId) |-> CategoryOfRow(RowsWithCatId[k])])
        children(c) == SelectSeq(RowsWithCatId,
                                 LAMBDA row : ~IsRootRow(row) /\ PyStr(row.parent_id) = c)
        subIds(c) == Dedupe([k \in 1..Len(children(c)) |-> PyStr(children(c)[k].cat_id)])
        RECURSIVE walk(_, _)
        walk(ci, si) ==
            IF ci > Len(catIds) THEN << >>
            ELSE IF si > Len(subIds(catIds[ci])) THEN walk(ci + 1, 1)
            ELSE << <<catIds[ci], subIds(catIds[ci])[si]>> >> \o walk(ci, si + 1)
    IN  walk(1, 1)

\* the display name of a subcategory: that of its last row
DisplayName(c, s) ==
    LET rows == SelectSeq(RowsWithCatId,
                          LAMBDA row : /\ ~IsRootRow(row)
                                       /\ PyStr(row.parent_id) = c
                                       /\ PyStr(row.cat_id) = s)
    IN  Get2(rows[Len(rows)].title, rows[Len(rows)].cat_name)

\* the subcategories, in encounter order, whose display name holds the
\* category reference
DisplayMatches(ref) ==
    SelectSeq(EncounterOrder,
              LAMBDA p : /\ DisplayName(p[1], p[2]).t = "str"
                         /\ (IsSubstr(ref, DisplayName(p[1], p[2]).s)
                               \/ ref = DisplayName(p[1], p[2]).s))

\* the <<category id, subcategory id>> pairs a field id stands under
PlacedUnder(cats, fid) ==
    { <<cats[p[1]].id, cats[p[1]].subcategories[p[2]].id>> : p \in Placements(cats, fid) }

\* C23: in the returned tree a uniquely identified field whose category
\* reference is held by the display name of one subcategory or more stands
\* under the first of them in encounter order, and under no other.
C23_FirstMatchInEncounterOrderWins ==
    tpc = "done" =>
        \A j \in 1..Len(fields_df) :
            (UniqueRow(j) /\ DisplayMatches(FieldCatRef(fields_df[j])) # << >>)
            => PlacedUnder(categories, PyStr(fields_df[j].field_id))
                  = { DisplayMatches(FieldCatRef(fields_df[j]))[1] }

\* C23 witness: a returned tree with a field whose reference is held by the
\* names of subcategories of two different categories, and a field with one
\* match that is not the first subcategory.
C23_Witness ==
    /\ tpc = "done"
    /\ \E j \in 1..Len(fields_df) :
          /\ UniqueRow(j)
          /\ LET ms == DisplayMatches(FieldCatRef(fields_df[j]))
             IN  /\ Len(ms) >= 2
                 /\ ms[1][1] # ms[Len(ms)][1]
                 /\ PlacedUnder(categories, PyStr(fields_df[j].field_id)) = { ms[1] }
    /\ \E j \in 1..Len(fields_df) :
          /\ UniqueRow(j)
          /\ LET ms == DisplayMatches(FieldCatRef(fields_df[j]))
             IN  /\ Len(ms) = 1
                 /\ ms[1] # EncounterOrder[1]


\* the field rows of the second loop that have been processed
FieldsDone == IF tpc = "done" THEN 1..Len(fields_df)
              ELSE IF tpc \in {"fields", "raised"} THEN 1..(ti - 1) ELSE {}

\* a uniquely identified field row stands under uncategorized/default
\* exactly when no display name holds its category reference
FallbackIffNoMatch ==
    \A j \in FieldsDone :
        UniqueRow(j) =>
            ( PlacedUnder(categories, PyStr(fields_df[j].field_id))
                  = { <<UncategorizedId, DefaultId>> }
              <=> DisplayMatches(FieldCatRef(fields_df[j])) = << >> )

\* C24: a processed field row stands under uncategorized/default if and only
\* if no subcategory display name holds its category reference, and the
\* processing of a field row that no display name matches never raises.
\* (With C23 the place of every field is a function of its own reference,
\* so no field moves another.)
C24_FallbackIffNoMatchAndNoError ==
    /\ FallbackIffNoMatch
    /\ ~( /\ tpc = "raised"
          /\ ti \in 1..Len(fields_df)
          /\ DisplayMatches(FieldCatRef(fields_df[ti])) = << >> )


\* the ids of the fields that stand under a category of the taxonomy
FieldsUnder(cat) ==
    UNION { { cat.subcategories[si].fields[k].field_id :
                k \in 1..Len(cat.subcategories[si].fields) } :
            si \in 1..Len(cat.subcategories) }

\* the sum of the mention counts of a set of used fields
RECURSIVE SumMentions(_, _)
SumMentions(usage, ids) ==
    IF ids = {} THEN 0
    ELSE LET id == CHOOSE x \in ids : TRUE
         IN  MentionsOf(usage, id) + SumMentions(usage, ids \ {id})

\* C25: once analyze_category_coverage was called, the entry it reports for
\* a category of the taxonomy that has fields counts the fields under that
\* category as total_fields, those of them with a UsageRecord as used_fields,
\* the sum of their mention counts as total_mentions and the union of their
\* paper sets as papers; and every entry has total_mentions >= used_fields
\* and total_mentions >= |papers|.
C25_CoverageFoldsUsagePerCategory ==
    category_coverage # << >> =>
        /\ \A ci \in 1..Len(showcase_data) :
              FieldsUnder(showcase_data[ci]) # {} =>
                  LET fields == FieldsUnder(showcase_data[ci])
                      used   == fields \cap KeySet(field_usage)
                      k      == IndexOf(category_coverage, showcase_data[ci].name)
                  IN  /\ k # 0
                      /\ category_coverage[k].total_fields = Cardinality(fields)
                      /\ category_coverage[k].used_fields = Cardinality(used)
                      /\ category_coverage[k].total_mentions = SumMentions(field_usage, used)
                      /\ category_coverage[k].papers
                            = UNION { field_usage[IndexOf(field_usage, id)].papers : id \in used }
        /\ \A k \in 1..Len(category_coverage) :
              /\ category_coverage[k].total_mentions >= category_coverage[k].used_fields
              /\ category_coverage[k].total_mentions
                     >= Cardinality(category_coverage[k].papers)


\* the UsageRecords an aggregation over pubs ends with, when nothing raises
RECURSIVE UsageOfMentions(_, _, _, _, _)
UsageOfMentions(usage, mappings, ids, pub, has_nlp) ==
    IF ids = << >> THEN usage
    ELSE UsageOfMentions(ProcessMention(usage, mappings, Head(ids), pub, has_nlp),
                         mappings, Tail(ids), pub, has_nlp)

RECURSIVE UsageOfCorpus(_, _, _, _)
UsageOfCorpus(usage, mappings, pubs, has_nlp) ==
    IF pubs = << >> THEN usage
    ELSE UsageOfCorpus(UsageOfMentions(usage, mappings, FindAll(PubText(Head(pubs)).s),
                                       Head(pubs), has_nlp),
                       mappings, Tail(pubs), has_nlp)

\* whether the aggregation over the corpus raises
CorpusRaises(mappings, pubs, has_nlp) ==
    \E i \in 1..Len(pubs) :
        \E n \in 1..Len(FindAll(PubText(pubs[i]).s)) :
            MentionRaises(mappings, FindAll(PubText(pubs[i]).s)[n], pubs[i], has_nlp)

\* UsageRecords without their contexts
WithoutContexts(usage) ==
    [k \in 1..Len(usage) |-> [id |-> usage[k].id, mentions |-> usage[k].mentions,
                              papers |-> usage[k].papers, years |-> usage[k].years]]

\* C26: when the analyzer is constructed with one segmenter variant, the
\* construction with the other variant on the same taxonomy and corpus
\* completes as well and gives the same UsageRecords, contexts aside, and
\* the same category coverage; a construction never fails with one variant
\* only.
C26_UsageAgnosticToSegmenter ==
    /\ upc = "ready" =>
          /\ ~CorpusRaises(field_mappings, publications, ~nlp)
          /\ WithoutContexts(field_usage)
                = WithoutContexts(UsageOfCorpus(NewFieldUsage, field_mappings,
                                                publications, ~nlp))
          /\ CategoryCoverage(field_mappings, field_usage)
                = CategoryCoverage(field_mappings,
                                   UsageOfCorpus(NewFieldUsage, field_mappings,
                                                 publications, ~nlp))
    /\ upc = "raised" => CorpusRaises(field_mappings, publications, ~nlp)

\* the same records, for the corpora on which the segmenter does not raise
UsageAgnosticWhenNothingRaises ==
    (upc = "ready" /\ ~CorpusRaises(field_mappings, publications, TRUE)) =>
          /\ WithoutContexts(field_usage)
                = WithoutContexts(UsageOfCorpus(NewFieldUsage, field_mappings,
                                                publications, ~nlp))


\* C27: once the analyzer is constructed, every step (a call of
\* generate_reports or of create_visualizations, each of which calls
\* analyze_category_coverage) leaves field_mappings and field_usage as they
\* were, and a call of analyze_category_coverage that follows an earlier one
\* returns what the earlier one returned.
C27_ReportsLeaveUsageUnchanged ==
    [][ upc = "ready" =>
            /\ field_mappings' = field_mappings
            /\ field_usage' = field_usage
            /\ category_coverage # << >> =>
                   CategoryCoverage(field_mappings', field_usage') = category_coverage ]_vars

\* C27 witness: coverage was computed and the coverage table made, on an
\* analyzer with a used field and a field of the taxonomy that is not used.
C27_Witness ==
    /\ upc = "ready"
    /\ category_coverage # << >>
    /\ coverage_data # << >>
    /\ field_usage # << >>
    /\ \E k \in 1..Len(field_mappings) : IndexOf(field_usage, field_mappings[k].id) = 0


\* C28: in the returned tree a uniquely identified field row that carries
\* no category reference (no 'category' and no 'cat_id' cell, or an empty
\* one) stands under uncategorized/default and under no other subcategory.
C28_NoReferenceFallsBack ==
    tpc = "done" =>
        \A j \in 1..Len(fields_df) :
            (UniqueRow(j) /\ FieldCatRef(fields_df[j]) = EmptyStr)
            => PlacedUnder(categories, PyStr(fields_df[j].field_id))
                  = { <<UncategorizedId, DefaultId>> }


\* C29: after every call of fetch_publications that returned,
\* self.publications is the list the call returned, and a save_to_json that
\* follows the call writes that list.
C29_PublicationsAreLastReturn ==
    /\ pub_pc = "returned" => self_publications = pub_ret
    /\ pub_pc = "saved" => saved_json = pub_ret


\* C30: a call of search_papers on a parser that uses the cache and finds
\* the cache file returns the cached list with no call of the search API,
\* and no other call returns from the cache; a call that searches holds at
\* most max_results fetched papers; and the cache file, when it exists,
\* holds a non-empty list of papers of the search API, never the sample
\* data.
C30_CacheFirstBoundedSearchNoSampleCached ==
    /\ spc = "returned_cache" =>
          /\ use_cache
          /\ cache_file.exists
          /\ search_ret = cache_file.content
          /\ searched = 0
    /\ spc \in {"term", "next", "returned"} =>
          /\ Len(papers) <= max_results
          /\ \A k \in 1..Len(papers) : papers[k] \in FetchablePapers
    /\ spc \in {"term", "next"} => ~(use_cache /\ cache_file.exists)
    /\ spc = "returned" =>
          /\ search_ret = (IF papers = << >> THEN SampleData ELSE papers)
          /\ (use_cache /\ papers # << >>) => cache_file = [exists |-> TRUE, content |-> papers]
    /\ cache_file.exists =>
          /\ cache_file.content # << >>
          /\ cache_file.content # SampleData
          /\ \A k \in 1..Len(cache_file.content) : cache_file.content[k] \in FetchablePapers

\* C30 witness: a second call has returned the list that the first call
\* fetched and cached, with no search of its own; the first call asked for
\* eight papers and fetched more than four.
C30_Witness ==
    /\ spc = "returned_cache"
    /\ search_calls = 2
    /\ searched = 0
    /\ Len(search_ret) > 4
    /\ search_ret = cache_file.content

====
